---- MODULE Spec2Model ----
(***************************************************************************)
(* MediaShuttleService.downloadFromMediaShuttle: one harvest call (Spec);  *)
(* MediaShuttleService.uploadToMediaShuttle: one upload call (UploadSpec); *)
(* S3UploaderService.upload: one call (S3Spec).                            *)
(* The portal (activity feed, detail views, download page, file system)    *)
(* is the environment; every visibility check, wait and file operation     *)
(* of the code is an environment response drawn from a small set.          *)
(* Texts are sequences of one-character strings, so that trim, startsWith  *)
(* and endsWith are computed, not assumed.                                 *)
(***************************************************************************)
EXTENDS Integers, Sequences, FiniteSets, TLC

(***************************************************************************)
(* Bounds of the model                                                     *)
(***************************************************************************)
\* longest activity feed the portal holds
MaxFeedLen == 2
\* entries the activity dialog renders when it is (re)opened
PageSize == 1
\* timestamps of detail views range over 0..MaxTs
MaxTs == 3
\* most files one S3 upload call is given
MaxFiles == 3
\* most paths one portal upload call is given
MaxUploads == 1
\* most elements of a page the error locator matches
MaxErrorNodes == 2
\* calls that overlap on one service instance
MaxCalls == 2

(***************************************************************************)
(* Program constants                                                       *)
(***************************************************************************)
maxScrollAttempts == 50

\* logFilterConditions.titlePrefix = "Received"
titlePrefix == <<"R", "e", "c", "e", "i", "v", "e", "d">>
\* filesFilterConditions.nameSuffix = "OptimAI.xlsx"
nameSuffix == <<"O", "p", "t", "i", "m", "A", "I", ".", "x", "l", "s", "x">>
\* the archive extension tested on the suggested file name
zipExt == <<".", "z", "i", "p">>

(***************************************************************************)
(* Texts                                                                   *)
(***************************************************************************)
NaN == -1

IsSpace(c) == c = " "

RECURSIVE TrimStart(_)
TrimStart(s) ==
    IF s # <<>> /\ IsSpace(Head(s)) THEN TrimStart(Tail(s)) ELSE s

RECURSIVE TrimEnd(_)
TrimEnd(s) ==
    IF s # <<>> /\ IsSpace(s[Len(s)]) THEN TrimEnd(SubSeq(s, 1, Len(s) - 1)) ELSE s

\* String.prototype.trim
Trim(s) == TrimEnd(TrimStart(s))

\* String.prototype.startsWith
StartsWith(s, p) == Len(s) >= Len(p) /\ SubSeq(s, 1, Len(p)) = p

\* String.prototype.endsWith
EndsWith(s, p) ==
    Len(s) >= Len(p) /\ SubSeq(s, Len(s) - Len(p) + 1, Len(s)) = p

\* path.basename(name, ext): the name without the extension; "" when the
\* name is the extension itself
Basename(name, ext) ==
    IF name = ext THEN <<>>
    ELSE IF EndsWith(name, ext) THEN SubSeq(name, 1, Len(name) - Len(ext))
    ELSE name

DigitValue(c) ==
    CASE c = "0" -> 0 [] c = "1" -> 1 [] c = "2" -> 2 [] c = "3" -> 3
      [] c = "4" -> 4 [] c = "5" -> 5 [] OTHER -> NaN

ParseDateLenient(text) == IF Len(text) = 1 THEN DigitValue(text[1]) ELSE 0
\* new Date(text).getTime(): a date text is one digit (the day), anything
\* else, the empty text included, is an Invalid Date
ParseDate(text) == IF Len(text) = 1 THEN DigitValue(text[1]) ELSE NaN

DigitOf(n) ==
    CASE n = 0 -> "0" [] n = 1 -> "1" [] n = 2 -> "2" [] n = 3 -> "3"
      [] n = 4 -> "4" [] OTHER -> "5"

(***************************************************************************)
(* What the portal can show                                                *)
(***************************************************************************)
\* raw textContent of .activity-item__info b
Titles == { <<" ">> \o titlePrefix \o <<" ", "1">>,
            <<"O", "t", "h", "e", "r">> }
\* raw textContent of .activity-item__subtext
Subtexts == { <<"a">>, <<"a", " ">>, <<"b", " ">> }

\* the rows of the feed: two of the subtexts differ only in white space; the
\* title that does not match is shown with one subtext
Rows ==
    { r \in [title : Titles, subtext : Subtexts] :
        r.title = <<"O", "t", "h", "e", "r">> => r.subtext = <<"a">> }

RECURSIVE SeqsUpTo(_, _)
SeqsUpTo(S, n) ==
    IF n = 0 THEN { <<>> }
    ELSE LET shorter == SeqsUpTo(S, n - 1)
         IN  shorter \cup { Append(s, x) : s \in { t \in shorter : Len(t) = n - 1 }, x \in S }

Feeds == SeqsUpTo(Rows, MaxFeedLen)

\* raw textContent of .activity-description__subtitle
SubtitleTexts ==
    { <<" ", DigitOf(n)>> : n \in 0..MaxTs } \cup { <<"n", "/", "a">> }

\* lastSyncTime values the caller passes
LastSyncTimes == { 1 }


\* names shown in the nested file list of a download page
FileA == <<"a", "_">> \o nameSuffix
FileB == <<"b", ".", "c", "s", "v">>
FileC == <<"c", "_">> \o nameSuffix

\* the .jstree-anchor texts a download page can show, in page order
NestedLists == { <<>>, <<FileB>>, <<FileA, FileB>>, <<FileA, FileB, FileC>> }

\* download.suggestedFilename() values
ZipName == <<"f">> \o zipExt
SuggestedNames == { ZipName, FileA }

\* entries of an archive: top-level files and directories
EntryX == [name |-> <<"x">>, isFile |-> TRUE]
EntryY == [name |-> <<"y">>, isFile |-> TRUE]
EntryD == [name |-> <<"d">>, isFile |-> FALSE]

\* what an archive can hold
ArchiveContents == { {EntryX}, {EntryY, EntryD} }

\* fs.readdirSync lists a directory in name order
ListingOrder == <<EntryD, EntryX, EntryY>>

\* D:\MayoDownload
downloadRoot == <<"D", ":">>

\* path.join(dir, name)
PathJoin(dir, name) == dir \o <<"\\">> \o name

Min(a, b) == IF a < b THEN a ELSE b

Range(s) == { s[i] : i \in DOMAIN s }

(***************************************************************************)
(* State                                                                   *)
(***************************************************************************)
VARIABLES
    pc,                   \* where the harvest call stands
    browser,              \* this.browser: "null" or "set"
    context,              \* this.context: "null" or "set"
    browserProc,          \* the launched browser: "none", "running", "closed",
                          \* "closeFailed" when its close() rejected
    contextRes,           \* the browser context: "none", "open", "closed",
                          \* "closeFailed" when its close() rejected
    page,                 \* local page of downloadFromMediaShuttle: "null" or "set"
    lastSyncTime,         \* the cutoff the caller passed
    feed,                 \* the portal's activity feed, newest first
    dialog,               \* #activity: "closed", "opening", "open"
    rendered,             \* how many feed entries the dialog has rendered
    visitedItems,         \* Set<string> of item ids
    scrollAttempts,
    shouldStopSearching,
    downloadCount,
    finalFileData,        \* FileData[] collected by performDownload
    activityItems,        \* the pass's snapshot: indexes of the rendered entries
    itemIdx,              \* position of the for loop in activityItems
    activityTimestamp,    \* parsed detail timestamp of the item being processed
    listWait,             \* the wait for a visible .jstree-anchor: "none",
                          \* "shown", "timedOut"
    fileItems,            \* texts of the .jstree-anchor entries of the download
                          \* page, in page order
    filteredFiles,        \* nested files matching nameSuffix, in page order
    selectedFiles,        \* nested files selected with Control-click
    downloadPromise,      \* the wait for "download": "none", "pending",
                          \* "resolved" by the event, "settled" when awaited
    downloadEvent,        \* the download of the item's click: "none", "started"
    suggestedFilename,
    downloadDir,          \* names of the files saved in D:\MayoDownload
    extractDirs,          \* names of the existing extraction directories
    extractedFiles,       \* <<directory name, entry>> of what these hold
    fileData,             \* what downloadActivityFiles returns: [defined, files]
    error,                \* the failing step of the call, "none" while it runs
    outcome,              \* "running", "returned", "threw"
    returned,             \* the files handed to the caller
    screenshot,           \* "none", "saved", "failed"
    \* history of the call, for the properties
    openLog,              \* feed indexes whose item was clicked, in order
    subtitleSeen,         \* feed index -> detail subtitle text read
    downloadLog,          \* feed indexes handed to downloadActivityFiles, in order
    triggerLog,           \* feed indexes whose final download button was clicked
    stoppedAt,            \* feed index that set shouldStopSearching, 0 if none
    archiveLog,           \* the archives extracted, in order: the item, what
                          \* the archive held, the records read for it
    lastItem,             \* the last item processed: what was saved for it
                          \* and how long the collection was before it
    passes,               \* passes over the feed since the last processed item
    allPasses,            \* passes over the feed since the call began
    scrolls,              \* scrolls of the feed since the last processed item
    retries,              \* consecutive loop rounds that found #activity hidden
    \* uploadToMediaShuttle
    filePaths,            \* the paths the caller passed
    chooserFiles,         \* what fileChooser.setFiles was given, <<>> before
    sendClicked,          \* whether #transferButton was clicked
    progressWait,         \* the wait for #transferProgressDetails: "none",
                          \* "shown", "timedOut"
    monitorWait,          \* monitorTransferProgress: "none", "completed",
                          \* "rejected"
    errorNodes,           \* the elements the error locator matches, in
                          \* document order: [selector, text]
    errorMessage,         \* what the probe read: [read, text]
    uploadResult,         \* the UploadResult returned, NoResult before
    \* S3UploaderService.upload
    s3Files,              \* the files passed to upload
    fileIdx,              \* position of the for loop in s3Files
    results,              \* UploadResult[] built by upload
    bucketKeys,           \* keys of the objects put into the bucket, in order
    s3Outcome,            \* "idle", "running", "returned", "threw"
    \* calls that overlap on one service instance
    calls,                \* call -> where the call stands
    handles,              \* browser or context -> "none", "running", "closed"
    closers               \* browser or context -> the calls that called its
                          \* close()

scanVars == <<visitedItems, scrollAttempts, shouldStopSearching, downloadCount,
              finalFileData, activityItems, itemIdx, activityTimestamp>>
flowVars == <<listWait, fileItems, filteredFiles, selectedFiles, downloadPromise, downloadEvent, suggestedFilename,
              fileData>>
diskVars == <<downloadDir, extractDirs, extractedFiles>>
sessionVars == <<browser, context, browserProc, contextRes, page>>
portalVars == <<feed, dialog, rendered, lastSyncTime>>
endVars == <<error, outcome, returned, screenshot>>
historyVars == <<openLog, subtitleSeen, downloadLog, triggerLog, stoppedAt,
                 archiveLog, lastItem, passes, allPasses, scrolls, retries>>

uploadVars == <<filePaths, chooserFiles, sendClicked, progressWait,
                monitorWait, errorNodes, errorMessage, uploadResult>>
s3Vars == <<s3Files, fileIdx, results, bucketKeys, s3Outcome>>

overlapVars == <<calls, handles, closers>>

vars == <<pc, scanVars, flowVars, diskVars, sessionVars, portalVars, endVars,
          historyVars, uploadVars, s3Vars, overlapVars>>

Undefined == [defined |-> FALSE, files |-> <<>>]
Defined(files) == [defined |-> TRUE, files |-> files]

NoItem == [index |-> 0, saved |-> <<>>, before |-> 0]

Null == [read |-> FALSE, text |-> <<>>]
TextRead(text) == [read |-> TRUE, text |-> text]
NoResult == [success |-> FALSE, message |-> "none", uploadedFiles |-> <<>>]

\* no uploadToMediaShuttle call is running
UploadIdle ==
    /\ filePaths = <<>>
    /\ chooserFiles = <<>>
    /\ sendClicked = FALSE
    /\ progressWait = "none"
    /\ monitorWait = "none"
    /\ errorNodes = <<>>
    /\ errorMessage = Null
    /\ uploadResult = NoResult

\* no S3UploaderService.upload call is running
S3Idle ==
    /\ s3Files = <<>>
    /\ fileIdx = 0
    /\ results = <<>>
    /\ bucketKeys = <<>>
    /\ s3Outcome = "idle"

\* the calls that can overlap on the instance
Calls == 1..MaxCalls
BrowserOf(c) == CASE c = 1 -> "browser1" [] c = 2 -> "browser2" [] OTHER -> "browser3"
ContextOf(c) == CASE c = 1 -> "context1" [] c = 2 -> "context2" [] OTHER -> "context3"
Handles == { BrowserOf(c) : c \in Calls } \cup { ContextOf(c) : c \in Calls }

\* no overlapping calls are followed
OverlapIdle ==
    /\ calls = [c \in Calls |-> "idle"]
    /\ handles = [h \in Handles |-> "none"]
    /\ closers = [h \in Handles |-> {}]

Init ==
    /\ pc = "start"
    /\ browser = "null" /\ context = "null"
    /\ browserProc = "none" /\ contextRes = "none"
    /\ page = "null"
    /\ lastSyncTime \in LastSyncTimes
    /\ feed \in Feeds
    /\ dialog = "closed"
    /\ rendered = 0
    /\ visitedItems = {}
    /\ scrollAttempts = 0
    /\ shouldStopSearching = FALSE
    /\ downloadCount = 0
    /\ finalFileData = <<>>
    /\ activityItems = <<>>
    /\ itemIdx = 0
    /\ activityTimestamp = NaN
    /\ listWait = "none"
    /\ fileItems = <<>>
    /\ filteredFiles = <<>>
    /\ selectedFiles = {}
    /\ downloadPromise = "none"
    /\ downloadEvent = "none"
    /\ suggestedFilename = <<>>
    /\ downloadDir = {}
    /\ extractDirs = {}
    /\ extractedFiles = {}
    /\ fileData = Undefined
    /\ error = "none"
    /\ outcome = "running"
    /\ returned = <<>>
    /\ screenshot = "none"
    /\ openLog = <<>>
    /\ subtitleSeen = <<>>
    /\ downloadLog = <<>>
    /\ triggerLog = <<>>
    /\ stoppedAt = 0
    /\ archiveLog = <<>>
    /\ lastItem = NoItem
    /\ passes = 0
    /\ allPasses = 0
    /\ scrolls = 0
    /\ retries = 0
    /\ UploadIdle
    /\ S3Idle
    /\ OverlapIdle

(***************************************************************************)
(* downloadFromMediaShuttle: session set-up                                *)
(***************************************************************************)
\* a step of the try block throws: control goes to the catch clause
Throw(step) == /\ pc' = "catch" /\ error' = step

DownloadSwallows(step) == /\ pc' = "endPass" /\ error' = step
\* an await inside downloadActivityFiles throws: its catch logs and rethrows,
\* and so does the catch of performDownload ("Download failed: ...")
DownloadThrows(step) == Throw(step)

\* initializeBrowser: chromium.launch, newContext, newPage and goto
InitializeBrowser ==
    /\ pc = "start"
    /\ \E step \in {"launch", "newContext", "goto", "ok"} :
         /\ browser' = IF step = "launch" THEN browser ELSE "set"
         /\ browserProc' = IF step = "launch" THEN browserProc ELSE "running"
         /\ context' = IF step \in {"launch", "newContext"} THEN context ELSE "set"
         /\ contextRes' = IF step \in {"launch", "newContext"} THEN contextRes ELSE "open"
         /\ IF step = "ok"
              THEN /\ page' = "set" /\ pc' = "login" /\ error' = error
              ELSE /\ page' = page /\ Throw(step)
    /\ UNCHANGED <<uploadVars, s3Vars, overlapVars, scanVars, flowVars, diskVars, portalVars, historyVars,
                   outcome, returned, screenshot>>

\* login: any failure is rethrown as "Login failed"
Login ==
    /\ pc = "login"
    /\ \E ok \in BOOLEAN :
         IF ok THEN pc' = "performDownload" /\ error' = error
               ELSE Throw("login")
    /\ UNCHANGED <<uploadVars, s3Vars, overlapVars, scanVars, flowVars, diskVars, sessionVars, portalVars,
                   historyVars, outcome, returned, screenshot>>

\* clicking #portal-activity-button opens the activity dialog, which shows
\* the first page of the feed at once or after a moment
DialogAfterClick == {"opening", "open"}
FirstPage == Min(PageSize, Len(feed))

\* performDownload up to its while loop: open "My Transfers" when the button
\* is visible
OpenActivity ==
    /\ pc = "performDownload"
    /\ \E buttonVisible \in BOOLEAN :
         IF buttonVisible
           THEN /\ dialog' \in DialogAfterClick
                /\ rendered' = FirstPage
           ELSE UNCHANGED <<dialog, rendered>>
    /\ pc' = "while"
    /\ UNCHANGED <<uploadVars, s3Vars, overlapVars, scanVars, flowVars, diskVars, sessionVars, feed,
                   lastSyncTime, endVars, historyVars>>

\* the portal finishes rendering the dialog
DialogAppears ==
    /\ dialog = "opening"
    /\ pc \notin {"start", "done"}
    /\ dialog' = "open"
    /\ UNCHANGED <<uploadVars, s3Vars, overlapVars, pc, scanVars, flowVars, diskVars, sessionVars, feed,
                   rendered, lastSyncTime, endVars, historyVars>>

(***************************************************************************)
(* performDownload: the scan                                               *)
(***************************************************************************)
WhileConditionInclusive(stop, attempts) ==
    ~stop /\ attempts <= maxScrollAttempts
\* while (!shouldStopSearching && scrollAttempts < maxScrollAttempts)
WhileCondition(stop, attempts) == ~stop /\ attempts < maxScrollAttempts

\* activityDialog.isVisible()
ActivityVisible == dialog = "open"

\* the loop condition fails: the scan is over
WhileExit ==
    /\ pc = "while"
    /\ ~WhileCondition(shouldStopSearching, scrollAttempts)
    /\ pc' = "return"
    /\ UNCHANGED <<uploadVars, s3Vars, overlapVars, scanVars, flowVars, diskVars, sessionVars, portalVars,
                   endVars, historyVars>>

\* "Activity dialog not found, retrying...": continue, nothing counted
WhileRetry ==
    /\ pc = "while"
    /\ WhileCondition(shouldStopSearching, scrollAttempts)
    /\ ~ActivityVisible
    /\ retries <= maxScrollAttempts
    /\ retries' = retries + 1
    /\ UNCHANGED <<uploadVars, s3Vars, overlapVars, pc, scanVars, flowVars, diskVars, sessionVars, portalVars,
                   endVars, openLog, subtitleSeen, downloadLog, triggerLog,
                   stoppedAt, lastItem, archiveLog, passes, allPasses, scrolls>>

NeverEmpty(count) == FALSE
\* activityItemsCount === 0
NoItems(count) == count = 0

\* activityItemsCount === 0: break
WhileEmpty ==
    /\ pc = "while"
    /\ WhileCondition(shouldStopSearching, scrollAttempts)
    /\ ActivityVisible
    /\ NoItems(rendered)
    /\ pc' = "return"
    /\ retries' = 0
    /\ UNCHANGED <<uploadVars, s3Vars, overlapVars, scanVars, flowVars, diskVars, sessionVars, portalVars,
                   endVars, openLog, subtitleSeen, downloadLog, triggerLog,
                   stoppedAt, lastItem, archiveLog, passes, allPasses, scrolls>>

\* a pass starts: activityItemsLocator.all() snapshots the rendered entries
WhilePass ==
    /\ pc = "while"
    /\ WhileCondition(shouldStopSearching, scrollAttempts)
    /\ ActivityVisible
    /\ ~NoItems(rendered)
    /\ activityItems' = [i \in 1..rendered |-> i]
    /\ itemIdx' = 1
    /\ pc' = "for"
    /\ passes' = passes + 1
    /\ allPasses' = allPasses + 1
    /\ retries' = 0
    /\ UNCHANGED <<uploadVars, s3Vars, overlapVars, visitedItems, scrollAttempts, shouldStopSearching,
                   downloadCount, finalFileData, activityTimestamp, flowVars,
                   diskVars, sessionVars, portalVars, endVars, openLog,
                   subtitleSeen, downloadLog, triggerLog, stoppedAt, lastItem, archiveLog,
                   scrolls>>

\* the item the for loop is at
AtItem == pc = "for" /\ itemIdx <= Len(activityItems)
CurIndex == activityItems[itemIdx]
CurEntry == feed[CurIndex]

ItemIdRaw(entry) == entry.title \o <<":", ":">> \o entry.subtext
\* const itemId = `${titleTrimmed}::${fileNameTrimmed}`
ItemId(entry) == Trim(entry.title) \o <<":", ":">> \o Trim(entry.subtext)

MatchesAnyTitle(title) == TRUE
\* titleTrimmed.startsWith(logFilterConditions.titlePrefix)
MatchesTitle(title) ==
    IF titlePrefix # <<>> THEN StartsWith(Trim(title), titlePrefix) ELSE TRUE

\* visitedItems.has(itemId)
IsVisited(visited, id) == id \in visited

MarkNothing(visited, id) == visited
\* visitedItems.add(itemId)
MarkVisited(visited, id) == visited \cup {id}

IsStrictlyOlder(lastSync, timestamp) == lastSync > timestamp
\* logFilterConditions.lastSync >= activityTimestamp
IsOldItem(lastSync, timestamp) == lastSync >= timestamp

\* the for loop moves to the next item (continue, or the end of its body)
NextItem == /\ itemIdx' = itemIdx + 1 /\ pc' = "for"

\* the for loop has gone through the snapshot
ForDone ==
    /\ pc = "for"
    /\ itemIdx > Len(activityItems)
    /\ pc' = "endPass"
    /\ UNCHANGED <<uploadVars, s3Vars, overlapVars, scanVars, flowVars, diskVars, sessionVars, portalVars,
                   endVars, historyVars>>

\* if (visitedItems.has(itemId)) continue
ForVisited ==
    /\ AtItem
    /\ IsVisited(visitedItems, ItemId(CurEntry))
    /\ NextItem
    /\ UNCHANGED <<uploadVars, s3Vars, overlapVars, visitedItems, scrollAttempts, shouldStopSearching,
                   downloadCount, finalFileData, activityItems,
                   activityTimestamp, flowVars, diskVars, sessionVars,
                   portalVars, endVars, historyVars>>

\* the title does not start with the prefix: nothing is done for the item
ForNoMatch ==
    /\ AtItem
    /\ ~IsVisited(visitedItems, ItemId(CurEntry))
    /\ ~MatchesTitle(CurEntry.title)
    /\ NextItem
    /\ UNCHANGED <<uploadVars, s3Vars, overlapVars, visitedItems, scrollAttempts, shouldStopSearching,
                   downloadCount, finalFileData, activityItems,
                   activityTimestamp, flowVars, diskVars, sessionVars,
                   portalVars, endVars, historyVars>>

\* a matching unvisited item
AtMatch ==
    /\ AtItem
    /\ ~IsVisited(visitedItems, ItemId(CurEntry))
    /\ MatchesTitle(CurEntry.title)

\* the subtitle texts the detail view of the current item can show: the one
\* it showed before, if it was opened before
DetailTexts ==
    IF CurIndex \in DOMAIN subtitleSeen THEN {subtitleSeen[CurIndex]}
    ELSE SubtitleTexts

\* the item is marked visited, but item.isVisible() is false: not clicked
ForMatchHidden ==
    /\ AtMatch
    /\ visitedItems' = MarkVisited(visitedItems, ItemId(CurEntry))
    /\ NextItem
    /\ UNCHANGED <<uploadVars, s3Vars, overlapVars, scrollAttempts, shouldStopSearching, downloadCount,
                   finalFileData, activityItems, activityTimestamp, flowVars,
                   diskVars, sessionVars, portalVars, endVars, historyVars>>

\* the item is marked visited and visible, but item.click() rejects: the
\* error leaves performDownload as "Download failed"
ForClickFails ==
    /\ AtMatch
    /\ visitedItems' = MarkVisited(visitedItems, ItemId(CurEntry))
    /\ Throw("click")
    /\ UNCHANGED <<uploadVars, s3Vars, overlapVars, scrollAttempts, shouldStopSearching, downloadCount,
                   finalFileData, activityItems, itemIdx, activityTimestamp,
                   flowVars, diskVars, sessionVars, portalVars, outcome,
                   returned, screenshot, historyVars>>

\* clicked, but .activity-description__subtitle is not visible: continue
ForNoSubtitle ==
    /\ AtMatch
    /\ visitedItems' = MarkVisited(visitedItems, ItemId(CurEntry))
    /\ openLog' = Append(openLog, CurIndex)
    /\ NextItem
    /\ UNCHANGED <<uploadVars, s3Vars, overlapVars, scrollAttempts, shouldStopSearching, downloadCount,
                   finalFileData, activityItems, activityTimestamp, flowVars,
                   diskVars, sessionVars, portalVars, endVars, subtitleSeen,
                   downloadLog, triggerLog, stoppedAt, lastItem, archiveLog, passes, allPasses, scrolls,
                   retries>>

\* clicked, the subtitle is no date: "Invalid timestamp", continue
ForInvalidTimestamp ==
    /\ AtMatch
    /\ \E text \in DetailTexts :
         /\ ParseDate(Trim(text)) = NaN
         /\ subtitleSeen' = (CurIndex :> text) @@ subtitleSeen
    /\ visitedItems' = MarkVisited(visitedItems, ItemId(CurEntry))
    /\ openLog' = Append(openLog, CurIndex)
    /\ NextItem
    /\ UNCHANGED <<uploadVars, s3Vars, overlapVars, scrollAttempts, shouldStopSearching, downloadCount,
                   finalFileData, activityItems, activityTimestamp, flowVars,
                   diskVars, sessionVars, portalVars, endVars, downloadLog,
                   triggerLog, stoppedAt, lastItem, archiveLog, passes, allPasses, scrolls, retries>>

\* clicked, the item is at or before lastSync: stop the search, break
ForOldItem ==
    /\ AtMatch
    /\ \E text \in DetailTexts :
         /\ ParseDate(Trim(text)) # NaN
         /\ IsOldItem(lastSyncTime, ParseDate(Trim(text)))
         /\ subtitleSeen' = (CurIndex :> text) @@ subtitleSeen
    /\ visitedItems' = MarkVisited(visitedItems, ItemId(CurEntry))
    /\ openLog' = Append(openLog, CurIndex)
    /\ shouldStopSearching' = TRUE
    /\ stoppedAt' = CurIndex
    /\ pc' = "endPass"
    /\ UNCHANGED <<uploadVars, s3Vars, overlapVars, scrollAttempts, downloadCount, finalFileData, activityItems,
                   itemIdx, activityTimestamp, flowVars, diskVars, sessionVars,
                   portalVars, endVars, downloadLog, triggerLog, lastItem, archiveLog, passes, allPasses,
                   scrolls, retries>>

\* clicked, the item is newer than lastSync: downloadActivityFiles is called
ForNewItem ==
    /\ AtMatch
    /\ \E text \in DetailTexts :
         /\ ParseDate(Trim(text)) # NaN
         /\ ~IsOldItem(lastSyncTime, ParseDate(Trim(text)))
         /\ subtitleSeen' = (CurIndex :> text) @@ subtitleSeen
         /\ activityTimestamp' = ParseDate(Trim(text))
    /\ visitedItems' = MarkVisited(visitedItems, ItemId(CurEntry))
    /\ openLog' = Append(openLog, CurIndex)
    /\ downloadLog' = Append(downloadLog, CurIndex)
    /\ pc' = "dropdown"
    /\ UNCHANGED <<uploadVars, s3Vars, overlapVars, scrollAttempts, shouldStopSearching, downloadCount,
                   finalFileData, activityItems, itemIdx, flowVars, diskVars,
                   sessionVars, portalVars, endVars, triggerLog, stoppedAt,
                   lastItem, archiveLog, passes, allPasses, scrolls, retries>>

\* after the for loop: if (shouldStopSearching) break
EndPassStop ==
    /\ pc = "endPass"
    /\ shouldStopSearching
    /\ pc' = "return"
    /\ UNCHANGED <<uploadVars, s3Vars, overlapVars, scanVars, flowVars, diskVars, sessionVars, portalVars,
                   endVars, historyVars>>

\* scrollAttempts++
NextAttempt(attempts) == attempts + 1

ScrollsBlind(surface) == TRUE
\* activityItemsContainer.evaluate(...) finds .activity-items only inside a
\* rendered #activity dialog
ContainerAttached(surface) == surface = "open"

\* after the for loop: scroll .activity-items down by 300 and count the
\* attempt; the portal renders one more entry
EndPassScroll ==
    /\ pc = "endPass"
    /\ ~shouldStopSearching
    /\ ContainerAttached(dialog)
    /\ rendered' = Min(rendered + 1, Len(feed))
    /\ scrollAttempts' = NextAttempt(scrollAttempts)
    /\ scrolls' = scrolls + 1
    /\ pc' = "while"
    /\ UNCHANGED <<uploadVars, s3Vars, overlapVars, visitedItems, shouldStopSearching, downloadCount,
                   finalFileData, activityItems, itemIdx, activityTimestamp,
                   flowVars, diskVars, sessionVars, feed, dialog, lastSyncTime,
                   endVars, openLog, subtitleSeen, downloadLog, triggerLog,
                   stoppedAt, lastItem, archiveLog, passes, allPasses, retries>>

\* the container is not there to scroll: evaluate() times out and throws
EndPassScrollFails ==
    /\ pc = "endPass"
    /\ ~shouldStopSearching
    /\ ~ContainerAttached(dialog)
    /\ Throw("scroll")
    /\ UNCHANGED <<uploadVars, s3Vars, overlapVars, scanVars, flowVars, diskVars, sessionVars, portalVars,
                   outcome, returned, screenshot, historyVars>>

(***************************************************************************)
(* downloadActivityFiles                                                   *)
(***************************************************************************)
AbortFromDownload(value) == /\ fileData' = value /\ pc' = "catch"
\* downloadActivityFiles returns: performDownload goes on after the call
ReturnFromDownload(value) == /\ fileData' = value /\ pc' = "afterDownload"

\* open the dropdown menu; "Download option not found": return
Dropdown ==
    /\ pc = "dropdown"
    /\ \E optionVisible \in BOOLEAN :
         IF optionVisible
           THEN /\ pc' = "navigate" /\ fileData' = fileData
           ELSE ReturnFromDownload(Undefined)
    /\ UNCHANGED <<uploadVars, s3Vars, overlapVars, scanVars, listWait, fileItems, filteredFiles, selectedFiles, downloadPromise, downloadEvent,
                   suggestedFilename, diskVars, sessionVars, portalVars,
                   endVars, historyVars>>

\* click Download and waitForURL("**/download.jsp**", 10 s): the page leaves
\* the portal, or the wait times out and throws
Navigate ==
    /\ pc = "navigate"
    /\ \E arrived \in BOOLEAN :
         IF arrived
           THEN /\ dialog' = "closed" /\ rendered' = 0
                /\ pc' = "fileList" /\ error' = error
           ELSE /\ DownloadThrows("navigation")
                /\ UNCHANGED <<dialog, rendered>>
    /\ UNCHANGED <<uploadVars, s3Vars, overlapVars, scanVars, flowVars, diskVars, sessionVars, feed,
                   lastSyncTime, outcome, returned, screenshot, historyVars>>

\* fileNameTrimmed.endsWith(filesFilterConditions.nameSuffix)
MatchesSuffix(name) ==
    IF nameSuffix # <<>> THEN EndsWith(Trim(name), nameSuffix) ELSE TRUE

\* the filteredFiles of a nested file list
FilterFiles(list) == SelectSeq(list, MatchesSuffix)

\* waitForSelector(".jstree-anchor", visible, 10 s): an entry is shown in
\* time, or the wait times out
ListWaits == {"shown", "timedOut"}

\* the entries counted after the wait: at least one when one was shown
ListsAfter(wait) ==
    IF wait = "shown" THEN { l \in NestedLists : l # <<>> } ELSE NestedLists

ListWaitRejects(wait) == IF wait = "timedOut" THEN "fileList" ELSE "none"
\* .catch(() => warn("File list did not load within timeout")): the error
\* the wait leaves to the sub-flow
ListWaitError(wait) == "none"

\* wait for the file list, collect the .jstree-anchor entries and filter
\* them; no entry, or none matching: return
FileList ==
    /\ pc = "fileList"
    /\ \E wait \in ListWaits : \E list \in ListsAfter(wait) :
         /\ listWait' = wait
         /\ IF ListWaitError(wait) # "none"
              THEN /\ DownloadThrows(ListWaitError(wait))
                   /\ UNCHANGED <<fileItems, filteredFiles, fileData>>
              ELSE /\ fileItems' = list
                   /\ error' = error
                   /\ IF Len(list) = 0 \/ Len(FilterFiles(list)) = 0
                        THEN /\ ReturnFromDownload(Undefined)
                             /\ filteredFiles' = filteredFiles
                        ELSE /\ filteredFiles' = FilterFiles(list)
                             /\ pc' = "select" /\ fileData' = fileData
    /\ UNCHANGED <<uploadVars, s3Vars, overlapVars, scanVars, selectedFiles, downloadPromise, downloadEvent, suggestedFilename,
                   diskVars, sessionVars, portalVars, outcome, returned,
                   screenshot, historyVars>>

PlainClick(selection, name) == {name}
\* element.click({modifiers: ["Control"]}) toggles the element's selection
ControlClick(selection, name) ==
    IF name \in selection THEN selection \ {name} ELSE selection \cup {name}

RECURSIVE SelectAll(_, _)
SelectAll(selection, files) ==
    IF files = <<>> THEN selection
    ELSE SelectAll(ControlClick(selection, Head(files)), Tail(files))

\* for (const file of filteredFiles) Control-click it
SelectFiles ==
    /\ pc = "select"
    /\ selectedFiles' = SelectAll({}, filteredFiles)
    /\ pc' = "trigger"
    /\ UNCHANGED <<uploadVars, s3Vars, overlapVars, scanVars, listWait, fileItems, filteredFiles, downloadPromise, downloadEvent, suggestedFilename,
                   fileData, diskVars, sessionVars, portalVars, endVars,
                   historyVars>>

\* register the wait for "download" (60 s), then click the final download
\* button; "Final download button not found": return
Trigger ==
    /\ pc = "trigger"
    /\ downloadPromise' = "pending"
    /\ downloadEvent' = "none"
    /\ \E buttonVisible \in BOOLEAN :
         IF buttonVisible
           THEN /\ triggerLog' = Append(triggerLog, CurIndex)
                /\ pc' = "awaitDownload" /\ fileData' = fileData
           ELSE /\ ReturnFromDownload(Undefined)
                /\ triggerLog' = triggerLog
    /\ UNCHANGED <<uploadVars, s3Vars, overlapVars, scanVars, listWait, fileItems, filteredFiles, selectedFiles, suggestedFilename,
                   diskVars, sessionVars, portalVars, endVars, openLog,
                   subtitleSeen, downloadLog, stoppedAt, lastItem, archiveLog, passes, allPasses,
                   scrolls, retries>>

EventDropped(promise) == promise
\* page.waitForEvent("download"): the event resolves a wait that is
\* registered when it is raised
EventResolves(promise) == IF promise = "pending" THEN "resolved" ELSE promise

\* the portal starts the download of the clicked item: while the call waits
\* 2 s or awaits the event, or after the wait has run out
DownloadStarts ==
    /\ downloadEvent = "none"
    /\ \/ pc = "awaitDownload"
       \/ pc \in {"catch", "finally"} /\ error = "downloadStart"
    /\ downloadEvent' = "started"
    /\ downloadPromise' = EventResolves(downloadPromise)
    /\ UNCHANGED <<uploadVars, s3Vars, overlapVars, pc, scanVars, listWait, fileItems, filteredFiles,
                   selectedFiles, suggestedFilename, fileData, diskVars,
                   sessionVars, portalVars, endVars, historyVars>>

\* await downloadPromise: the download has started and is handed over, or
\* the 60 s run out and the wait throws
AwaitDownload ==
    /\ pc = "awaitDownload"
    /\ downloadPromise' = "settled"
    /\ IF downloadPromise = "resolved"
         THEN \E name \in SuggestedNames :
                /\ suggestedFilename' = name
                /\ pc' = "save" /\ error' = error
         ELSE /\ DownloadThrows("downloadStart")
              /\ suggestedFilename' = suggestedFilename
    /\ UNCHANGED <<uploadVars, s3Vars, overlapVars, scanVars, listWait, fileItems, filteredFiles, selectedFiles, downloadEvent, fileData, diskVars,
                   sessionVars, portalVars, outcome, returned, screenshot,
                   historyVars>>

\* download.saveAs(path.join("D:\\MayoDownload", suggestedFilename))
Save ==
    /\ pc = "save"
    /\ \E saved \in BOOLEAN :
         IF saved
           THEN /\ downloadDir' = downloadDir \cup {suggestedFilename}
                /\ pc' = "materialize" /\ error' = error
           ELSE /\ DownloadThrows("save")
                /\ downloadDir' = downloadDir
    /\ UNCHANGED <<uploadVars, s3Vars, overlapVars, scanVars, flowVars, extractDirs, extractedFiles,
                   sessionVars, portalVars, outcome, returned, screenshot,
                   historyVars>>

\* suggestedFilename.endsWith(".zip")
IsArchive(name) == EndsWith(name, zipExt)

\* path.basename(suggestedFilename, ".zip")
ExtractDir(name) == Basename(name, zipExt)

\* one FileData of readDownloadedFiles
FileRecord(dir, name, activityDate) ==
    [fileName |-> name,
     filePath |-> PathJoin(PathJoin(downloadRoot, dir), name),
     type |-> "INPUT",
     status |-> "null",
     statusHistory |-> "null",
     data |-> <<dir, name>>,
     updatedAt |-> activityDate]

RECURSIVE RecordsOf(_, _, _, _)
RecordsOf(listing, dir, held, activityDate) ==
    IF listing = <<>> THEN <<>>
    ELSE LET entry == Head(listing)
             rest == RecordsOf(Tail(listing), dir, held, activityDate)
         IN  IF <<dir, entry>> \in held /\ entry.isFile
               THEN <<FileRecord(dir, entry.name, activityDate)>> \o rest
               ELSE rest

\* readDownloadedFiles(extractDir, activityDate): a record for every file
\* in the directory, directories left out
ReadDownloadedFiles(dir, held, activityDate) ==
    RecordsOf(ListingOrder, dir, held, activityDate)

DirectFileRecord(name, activityDate) ==
    <<FileRecord(<<>>, name, activityDate)>>
\* the fileData of a saved download that is no archive: let fileData = []
\* is never assigned
DirectFileData(name, activityDate) == <<>>

\* the download is an archive: make the directory, extract, delete the
\* archive, read the directory
MaterializeArchive ==
    /\ pc = "materialize"
    /\ IsArchive(suggestedFilename)
    /\ \E content \in ArchiveContents :
         LET dir == ExtractDir(suggestedFilename)
             held == extractedFiles \cup { <<dir, e>> : e \in content }
         IN  /\ extractDirs' = extractDirs \cup {dir}
             /\ extractedFiles' = held
             /\ downloadDir' = downloadDir \ {suggestedFilename}
             /\ ReturnFromDownload(
                    Defined(ReadDownloadedFiles(dir, held, activityTimestamp)))
             /\ archiveLog' = Append(archiveLog,
                    [index |-> CurIndex, dir |-> dir, content |-> content,
                     records |-> ReadDownloadedFiles(dir, held, activityTimestamp)])
    /\ UNCHANGED <<uploadVars, s3Vars, overlapVars, scanVars, listWait, fileItems, filteredFiles, selectedFiles, downloadPromise, downloadEvent,
                   suggestedFilename, sessionVars, portalVars, endVars,
                   openLog, subtitleSeen, downloadLog, triggerLog, stoppedAt,
                   lastItem, passes, allPasses, scrolls, retries>>

UnlinkedFirst(saved, name) == saved \ {name}
\* the download directory when extractZipFile has thrown: fs.unlinkSync
\* comes after the extraction and is not reached
AfterFailedExtract(saved, name) == saved

\* extractZipFile throws "Extraction failed": the archive stays on disk
ExtractFails ==
    /\ pc = "materialize"
    /\ IsArchive(suggestedFilename)
    /\ extractDirs' = extractDirs \cup {ExtractDir(suggestedFilename)}
    /\ downloadDir' = AfterFailedExtract(downloadDir, suggestedFilename)
    /\ DownloadThrows("extract")
    /\ UNCHANGED <<uploadVars, s3Vars, overlapVars, scanVars, flowVars, extractedFiles,
                   sessionVars, portalVars, outcome, returned, screenshot,
                   historyVars>>

\* the download is no archive: nothing is extracted or read
MaterializeDirect ==
    /\ pc = "materialize"
    /\ ~IsArchive(suggestedFilename)
    /\ ReturnFromDownload(
           Defined(DirectFileData(suggestedFilename, activityTimestamp)))
    /\ UNCHANGED <<uploadVars, s3Vars, overlapVars, scanVars, listWait, fileItems, filteredFiles, selectedFiles, downloadPromise, downloadEvent,
                   suggestedFilename, diskVars, sessionVars, portalVars,
                   endVars, historyVars>>

CollectInFront(collection, downloadedFiles) ==
    IF downloadedFiles.defined /\ Len(downloadedFiles.files) > 0
      THEN downloadedFiles.files \o collection
      ELSE collection
\* if (downloadedFiles && downloadedFiles.length > 0) finalFileData.push(...)
Collect(collection, downloadedFiles) ==
    IF downloadedFiles.defined /\ Len(downloadedFiles.files) > 0
      THEN collection \o downloadedFiles.files
      ELSE collection

KeepAttempts(attempts) == attempts
\* scrollAttempts = 0
ResetAttempts(attempts) == 0

\* back in performDownload: collect the files, count the item, reset the
\* attempts, reopen the activity dialog when its button is visible, break
AfterDownload ==
    /\ pc = "afterDownload"
    /\ finalFileData' = Collect(finalFileData, fileData)
    /\ downloadCount' = downloadCount + 1
    /\ scrollAttempts' = ResetAttempts(scrollAttempts)
    /\ \E buttonVisible \in BOOLEAN :
         IF buttonVisible
           THEN /\ dialog' \in DialogAfterClick
                /\ rendered' = FirstPage
           ELSE UNCHANGED <<dialog, rendered>>
    /\ lastItem' = [index |-> CurIndex, saved |-> suggestedFilename,
                    before |-> Len(finalFileData)]
    /\ passes' = 0
    /\ allPasses' = allPasses
    /\ scrolls' = 0
    /\ activityTimestamp' = NaN
    /\ listWait' = "none"
    /\ fileItems' = <<>>
    /\ filteredFiles' = <<>>
    /\ selectedFiles' = {}
    /\ suggestedFilename' = <<>>
    /\ fileData' = Undefined
    /\ pc' = "endPass"
    /\ UNCHANGED <<uploadVars, s3Vars, overlapVars, visitedItems, shouldStopSearching, activityItems, itemIdx,
                   downloadPromise, downloadEvent, diskVars, sessionVars, feed, lastSyncTime,
                   endVars, openLog, subtitleSeen, downloadLog, triggerLog,
                   stoppedAt, archiveLog, retries>>

(***************************************************************************)
(* downloadFromMediaShuttle: the ways out                                  *)
(***************************************************************************)
\* performDownload returns finalFileData, and the call returns it
ReturnFiles ==
    /\ pc = "return"
    /\ outcome' = "returned"
    /\ returned' = finalFileData
    /\ pc' = "finally"
    /\ UNCHANGED <<uploadVars, s3Vars, overlapVars, scanVars, flowVars, diskVars, sessionVars, portalVars,
                   error, screenshot, historyVars>>

ScreenshotSkipped(pg) == {"none"}
\* if (page) await this.captureErrorScreenshot(page): the screenshot is
\* saved, or its failure is logged and swallowed
ScreenshotResults(pg) ==
    IF pg = "set" THEN {"saved", "failed"} ELSE {"none"}

\* catch: captureErrorScreenshot when there is a page, then throw error
CatchError ==
    /\ pc = "catch"
    /\ screenshot' \in ScreenshotResults(page)
    /\ outcome' = "threw"
    /\ pc' = "finally"
    /\ UNCHANGED <<uploadVars, s3Vars, overlapVars, scanVars, flowVars, diskVars, sessionVars, portalVars,
                   error, returned, historyVars>>

\* cleanup(): close the context, then the browser, inside one try block; a
\* close that rejects is logged and ends the cleanup, so what follows it in
\* the block is not run
CleanupResult(contextClosed, browserClosed) ==
    LET contextTried == context = "set"
        contextDone == ~contextTried \/ contextClosed
        browserTried == contextDone /\ browser = "set"
        browserDone == browserTried /\ browserClosed
    IN  [context |-> IF contextTried /\ contextClosed THEN "null" ELSE context,
         contextRes |-> IF contextTried /\ contextClosed THEN "closed"
                        ELSE IF browserDone /\ contextRes = "open" THEN "closed"
                        ELSE IF contextTried THEN "closeFailed"
                        ELSE contextRes,
         browser |-> IF browserDone THEN "null" ELSE browser,
         browserProc |-> IF browserDone THEN "closed"
                         ELSE IF browserTried THEN "closeFailed"
                         ELSE browserProc]

\* finally: await this.cleanup(); then the call has returned or thrown
Cleanup ==
    /\ pc = "finally"
    /\ \E contextClosed \in BOOLEAN, browserClosed \in BOOLEAN :
         LET after == CleanupResult(contextClosed, browserClosed)
         IN  /\ context' = after.context
             /\ contextRes' = after.contextRes
             /\ browser' = after.browser
             /\ browserProc' = after.browserProc
    /\ pc' = "done"
    /\ UNCHANGED <<uploadVars, s3Vars, overlapVars, scanVars, flowVars, diskVars, page, portalVars, endVars,
                   historyVars>>

Next ==
    \/ InitializeBrowser
    \/ Login
    \/ OpenActivity
    \/ DialogAppears
    \/ WhileExit
    \/ WhileRetry
    \/ WhileEmpty
    \/ WhilePass
    \/ ForDone
    \/ ForVisited
    \/ ForNoMatch
    \/ ForMatchHidden
    \/ ForClickFails
    \/ ForNoSubtitle
    \/ ForInvalidTimestamp
    \/ ForOldItem
    \/ ForNewItem
    \/ EndPassStop
    \/ EndPassScroll
    \/ EndPassScrollFails
    \/ Dropdown
    \/ Navigate
    \/ FileList
    \/ SelectFiles
    \/ Trigger
    \/ DownloadStarts
    \/ AwaitDownload
    \/ Save
    \/ MaterializeArchive
    \/ ExtractFails
    \/ MaterializeDirect
    \/ AfterDownload
    \/ ReturnFiles
    \/ CatchError
    \/ Cleanup

Spec == Init /\ [][Next]_vars

(***************************************************************************)
(* uploadToMediaShuttle: one upload call                                   *)
(***************************************************************************)
\* no harvest call is running: the state of a fresh service instance
HarvestIdle ==
    /\ browser = "null" /\ context = "null"
    /\ browserProc = "none" /\ contextRes = "none"
    /\ page = "null"
    /\ lastSyncTime \in LastSyncTimes
    /\ feed = <<>>
    /\ dialog = "closed"
    /\ rendered = 0
    /\ visitedItems = {}
    /\ scrollAttempts = 0
    /\ shouldStopSearching = FALSE
    /\ downloadCount = 0
    /\ finalFileData = <<>>
    /\ activityItems = <<>>
    /\ itemIdx = 0
    /\ activityTimestamp = NaN
    /\ listWait = "none"
    /\ fileItems = <<>>
    /\ filteredFiles = <<>>
    /\ selectedFiles = {}
    /\ downloadPromise = "none"
    /\ downloadEvent = "none"
    /\ suggestedFilename = <<>>
    /\ downloadDir = {}
    /\ extractDirs = {}
    /\ extractedFiles = {}
    /\ fileData = Undefined
    /\ error = "none"
    /\ outcome = "running"
    /\ returned = <<>>
    /\ screenshot = "none"
    /\ openLog = <<>>
    /\ subtitleSeen = <<>>
    /\ downloadLog = <<>>
    /\ triggerLog = <<>>
    /\ stoppedAt = 0
    /\ archiveLog = <<>>
    /\ lastItem = NoItem
    /\ passes = 0
    /\ allPasses = 0
    /\ scrolls = 0
    /\ retries = 0

harvestVars == <<scanVars, flowVars, diskVars, portalVars, historyVars,
                 outcome, returned>>

\* a letter of a text in lower case
LowerOf(c) ==
    CASE c = "E" -> "e" [] c = "R" -> "r" [] c = "O" -> "o"
      [] c = "S" -> "s" [] OTHER -> c

\* String.prototype.toLowerCase
ToLowerCase(s) == [k \in DOMAIN s |-> LowerOf(s[k])]

\* String.prototype.includes
Includes(s, sub) ==
    \E k \in 0..(Len(s) - Len(sub)) : SubSeq(s, k + 1, k + Len(sub)) = sub

\* path.basename(filePath): what follows the last separator
RECURSIVE PathBasename(_)
PathBasename(filePath) ==
    IF \E k \in DOMAIN filePath : filePath[k] = "\\"
      THEN PathBasename(Tail(filePath))
      ELSE filePath

\* paths a caller passes to uploadToMediaShuttle
UploadPaths == { PathJoin(downloadRoot, <<"a">>), <<"b">> }
UploadInputs == SeqsUpTo(UploadPaths, MaxUploads)

\* the word the probe looks for
errorWord == <<"e", "r", "r", "o", "r">>
\* textContent of the elements the error locator can match
TextFailed == <<"E", "r", "r", "o", "r", "!">>
TextSending == <<"S", "e", "n", "t">>
ErrorTexts == { <<>>, TextFailed, TextSending }
\* the four selectors of the error locator
ErrorSelectors == { ".error", ".upload-error", "[data-testid*=error]",
                    "#transferStatus" }
ErrorNodes == [selector : ErrorSelectors, text : ErrorTexts]
\* the matching elements of a page, in document order
ErrorNodeLists == SeqsUpTo(ErrorNodes, MaxErrorNodes)

UploadInit ==
    /\ pc = "upload"
    /\ HarvestIdle
    /\ S3Idle
    /\ OverlapIdle
    /\ filePaths \in UploadInputs
    /\ chooserFiles = <<>>
    /\ sendClicked = FALSE
    /\ progressWait = "none"
    /\ monitorWait = "none"
    /\ errorNodes = <<>>
    /\ errorMessage = Null
    /\ uploadResult = NoResult

\* a step of the try block of uploadToMediaShuttle throws
UploadThrow(step) == /\ pc' = "uploadCatch" /\ error' = step

\* if (!filePaths.every((filePath) => fs.existsSync(filePath))) throw
UploadCheckFiles ==
    /\ pc = "upload"
    /\ \E allExist \in BOOLEAN :
         IF allExist \/ filePaths = <<>>
           THEN pc' = "uploadInitialize" /\ error' = error
           ELSE UploadThrow("filesNotFound")
    /\ UNCHANGED <<harvestVars, sessionVars, screenshot, uploadVars, s3Vars, overlapVars>>

\* page = await this.initializeBrowser(config)
UploadInitializeBrowser ==
    /\ pc = "uploadInitialize"
    /\ \E step \in {"launch", "newContext", "goto", "ok"} :
         /\ browser' = IF step = "launch" THEN browser ELSE "set"
         /\ browserProc' = IF step = "launch" THEN browserProc ELSE "running"
         /\ context' = IF step \in {"launch", "newContext"} THEN context ELSE "set"
         /\ contextRes' = IF step \in {"launch", "newContext"} THEN contextRes ELSE "open"
         /\ IF step = "ok"
              THEN /\ page' = "set" /\ pc' = "uploadLogin" /\ error' = error
              ELSE /\ page' = page /\ UploadThrow(step)
    /\ UNCHANGED <<harvestVars, screenshot, uploadVars, s3Vars, overlapVars>>

\* await this.login(page, config)
UploadLogin ==
    /\ pc = "uploadLogin"
    /\ \E ok \in BOOLEAN :
         IF ok THEN pc' = "performUpload" /\ error' = error
               ELSE UploadThrow("login")
    /\ UNCHANGED <<harvestVars, sessionVars, screenshot, uploadVars, s3Vars, overlapVars>>

\* performUpload: "Transfer Without App" and the recipient, each used when
\* visible; a click or fill that rejects is rethrown as "Upload failed"
PrepareTransfer ==
    /\ pc = "performUpload"
    /\ \E ok \in BOOLEAN :
         IF ok THEN pc' = "addFiles" /\ error' = error
               ELSE UploadThrow("form")
    /\ UNCHANGED <<harvestVars, sessionVars, screenshot, uploadVars, s3Vars, overlapVars>>

\* what the file chooser is given
SetFiles(paths) == paths

\* performUpload: when #addFilesButton is visible, click it, give the file
\* chooser the paths and click #transferButton when that is visible; then
\* waitForUploadCompletion, whether or not anything was added or sent
AddFiles ==
    /\ pc = "addFiles"
    /\ \E addVisible \in BOOLEAN, chooserOpens \in BOOLEAN,
          sendVisible \in BOOLEAN, sendOk \in BOOLEAN :
         IF ~addVisible
           THEN /\ pc' = "waitForUploadCompletion"
                /\ UNCHANGED <<chooserFiles, sendClicked, error>>
           ELSE IF ~chooserOpens
             THEN /\ UploadThrow("fileChooser")
                  /\ UNCHANGED <<chooserFiles, sendClicked>>
             ELSE /\ chooserFiles' = SetFiles(filePaths)
                  /\ IF ~sendVisible
                       THEN /\ pc' = "waitForUploadCompletion"
                            /\ UNCHANGED <<sendClicked, error>>
                       ELSE IF sendOk
                         THEN /\ sendClicked' = TRUE
                              /\ pc' = "waitForUploadCompletion"
                              /\ error' = error
                         ELSE /\ UploadThrow("send")
                              /\ sendClicked' = sendClicked
    /\ UNCHANGED <<harvestVars, sessionVars, screenshot, filePaths,
                   progressWait, monitorWait, errorNodes, errorMessage,
                   uploadResult, s3Vars, overlapVars>>

\* waitForUploadCompletion: page.waitForSelector("#transferProgressDetails",
\* { timeout: 10000 }); its rejection is caught by the bare catch
WaitForProgress ==
    /\ pc = "waitForUploadCompletion"
    /\ \E wait \in {"shown", "timedOut"} :
         /\ progressWait' = wait
         /\ pc' = IF wait = "shown" THEN "monitorTransferProgress"
                  ELSE "probeError"
    /\ UNCHANGED <<harvestVars, sessionVars, endVars, filePaths, chooserFiles,
                   sendClicked, monitorWait, errorNodes, errorMessage,
                   uploadResult, s3Vars, overlapVars>>

\* monitorTransferProgress: page.waitForFunction(..., { timeout: 300000 })
\* resolves when #topText names a terminal marker; its rejection is caught by
\* the bare catch of waitForUploadCompletion
MonitorTransferProgress ==
    /\ pc = "monitorTransferProgress"
    /\ \E wait \in {"completed", "rejected"} :
         /\ monitorWait' = wait
         /\ pc' = IF wait = "completed" THEN "uploadReturn" ELSE "probeError"
    /\ UNCHANGED <<harvestVars, sessionVars, endVars, filePaths, chooserFiles,
                   sendClicked, progressWait, errorNodes, errorMessage,
                   uploadResult, s3Vars, overlapVars>>

\* page.locator(...).first().textContent().catch(() => null): the text of
\* the first matching element in document order; null when no element
\* matches in time or the read rejects
ProbeText(nodes, rejected) ==
    IF nodes = <<>> \/ rejected THEN Null ELSE TextRead(nodes[1].text)

\* errorMessage && errorMessage.toLowerCase().includes("error")
IsErrorMessage(message) ==
    /\ message.read
    /\ message.text # <<>>
    /\ Includes(ToLowerCase(message.text), errorWord)

\* the catch of waitForUploadCompletion: read the error locator and throw
\* "Transfer failed" on an error text, else assume the transfer completed
ProbeError ==
    /\ pc = "probeError"
    /\ \E nodes \in ErrorNodeLists, rejected \in BOOLEAN :
         /\ errorNodes' = nodes
         /\ errorMessage' = ProbeText(nodes, rejected)
         /\ IF IsErrorMessage(ProbeText(nodes, rejected))
              THEN UploadThrow("transfer")
              ELSE pc' = "uploadReturn" /\ error' = error
    /\ UNCHANGED <<harvestVars, sessionVars, screenshot, filePaths,
                   chooserFiles, sendClicked, progressWait, monitorWait,
                   uploadResult, s3Vars, overlapVars>>

\* return { success: true, ..., uploadedFiles: filePaths.map(basename) }
UploadReturn ==
    /\ pc = "uploadReturn"
    /\ uploadResult' = [success |-> TRUE, message |-> "uploaded",
                        uploadedFiles |->
                            [k \in DOMAIN filePaths |-> PathBasename(filePaths[k])]]
    /\ pc' = "uploadFinally"
    /\ UNCHANGED <<harvestVars, sessionVars, endVars, filePaths, chooserFiles,
                   sendClicked, progressWait, monitorWait, errorNodes,
                   errorMessage, s3Vars, overlapVars>>

\* catch: captureErrorScreenshot when there is a page, then
\* return { success: false, ... }
UploadCatch ==
    /\ pc = "uploadCatch"
    /\ screenshot' \in ScreenshotResults(page)
    /\ uploadResult' = [success |-> FALSE, message |-> "failed",
                        uploadedFiles |-> <<>>]
    /\ pc' = "uploadFinally"
    /\ UNCHANGED <<harvestVars, sessionVars, error, filePaths, chooserFiles,
                   sendClicked, progressWait, monitorWait, errorNodes,
                   errorMessage, s3Vars, overlapVars>>

\* finally: await this.cleanup()
UploadCleanup ==
    /\ pc = "uploadFinally"
    /\ \E contextClosed \in BOOLEAN, browserClosed \in BOOLEAN :
         LET after == CleanupResult(contextClosed, browserClosed)
         IN  /\ context' = after.context
             /\ contextRes' = after.contextRes
             /\ browser' = after.browser
             /\ browserProc' = after.browserProc
    /\ pc' = "uploadDone"
    /\ UNCHANGED <<harvestVars, page, error, screenshot, uploadVars, s3Vars, overlapVars>>

UploadNext ==
    \/ UploadCheckFiles
    \/ UploadInitializeBrowser
    \/ UploadLogin
    \/ PrepareTransfer
    \/ AddFiles
    \/ WaitForProgress
    \/ MonitorTransferProgress
    \/ ProbeError
    \/ UploadReturn
    \/ UploadCatch
    \/ UploadCleanup

UploadSpec == UploadInit /\ [][UploadNext]_vars

(***************************************************************************)
(* S3UploaderService.upload                                                *)
(***************************************************************************)
\* fileName values of the FileData the caller passes
S3Names == { <<"x">>, <<"y">> }
S3Inputs == SeqsUpTo(S3Names, MaxFiles)

\* new Date().toISOString().split("T")[0].replace(/-/g, ""), for one day
today == <<"2", "0", "2", "5", "1", "1", "2", "8">>
\* `project/${today}/output/${file.fileName}`
S3Key(name) ==
    <<"p", "r", "o", "j", "e", "c", "t", "/">> \o today
        \o <<"/", "o", "u", "t", "p", "u", "t", "/">> \o name

S3Init ==
    /\ pc = "s3"
    /\ HarvestIdle
    /\ UploadIdle
    /\ OverlapIdle
    /\ s3Files \in S3Inputs
    /\ fileIdx = 1
    /\ results = <<>>
    /\ bucketKeys = <<>>
    /\ s3Outcome = "running"

StopAtFailure(idx, sent, count) == IF sent THEN idx + 1 ELSE count + 1
\* for (const file of files): the try block or its catch has run for the
\* file; the loop goes to the next one
NextFile(idx, sent, count) == idx + 1

\* results.push(...)
PushResult(list, result) == Append(list, result)

\* one round of the loop: the put is sent and a success is pushed, or the
\* send rejects and the catch pushes a failure
S3Send ==
    /\ pc = "s3"
    /\ s3Outcome = "running"
    /\ fileIdx <= Len(s3Files)
    /\ \E sent \in BOOLEAN :
         /\ results' = PushResult(results, [fileName |-> s3Files[fileIdx],
                                            success |-> sent])
         /\ bucketKeys' = IF sent THEN Append(bucketKeys, S3Key(s3Files[fileIdx]))
                          ELSE bucketKeys
         /\ fileIdx' = NextFile(fileIdx, sent, Len(s3Files))
    /\ UNCHANGED <<pc, harvestVars, sessionVars, error, screenshot, uploadVars, overlapVars,
                   s3Files, s3Outcome>>

\* return results
S3Return ==
    /\ pc = "s3"
    /\ s3Outcome = "running"
    /\ fileIdx > Len(s3Files)
    /\ s3Outcome' = "returned"
    /\ UNCHANGED <<pc, harvestVars, sessionVars, error, screenshot, uploadVars, overlapVars,
                   s3Files, fileIdx, results, bucketKeys>>

S3Next ==
    \/ S3Send
    \/ S3Return

S3Spec == S3Init /\ [][S3Next]_vars

(***************************************************************************)
(* Calls that overlap on one MediaShuttleService instance: each call runs  *)
(* initializeBrowser, its body and cleanup; this.browser and this.context  *)
(* are fields of the instance, and every await lets the other call run     *)
(***************************************************************************)
singleCallVars == <<pc, scanVars, flowVars, diskVars, browserProc, contextRes,
                    page, portalVars, endVars, historyVars, uploadVars, s3Vars>>

OverlapInit ==
    /\ pc = "overlap"
    /\ HarvestIdle
    /\ UploadIdle
    /\ S3Idle
    /\ calls = [c \in Calls |-> "start"]
    /\ handles = [h \in Handles |-> "none"]
    /\ closers = [h \in Handles |-> {}]

\* the call moves on
CallGoes(c, position) == calls' = [calls EXCEPT ![c] = position]

\* this.browser = await chromium.launch(...): the field is assigned when the
\* launch resolves; a rejected launch goes to the finally of the call
CallLaunch(c) ==
    /\ calls[c] = "start"
    /\ \E launched \in BOOLEAN :
         IF launched
           THEN /\ handles' = [handles EXCEPT ![BrowserOf(c)] = "running"]
                /\ browser' = BrowserOf(c)
                /\ CallGoes(c, "newContext")
           ELSE /\ CallGoes(c, "cleanup")
                /\ UNCHANGED <<handles, browser>>
    /\ UNCHANGED <<singleCallVars, context, closers>>

\* this.context = await this.browser.newContext(...): this.browser is read
\* right after its assignment, so the context is made in the call's own
\* browser; the field is assigned when newContext resolves
CallNewContext(c) ==
    /\ calls[c] = "newContext"
    /\ \E made \in BOOLEAN :
         IF made /\ handles[BrowserOf(c)] = "running"
           THEN /\ handles' = [handles EXCEPT ![ContextOf(c)] = "running"]
                /\ context' = ContextOf(c)
                /\ CallGoes(c, "work")
           ELSE /\ CallGoes(c, "cleanup")
                /\ UNCHANGED <<handles, context>>
    /\ UNCHANGED <<singleCallVars, browser, closers>>

\* newPage, goto, login and the upload or download: the call returns or
\* throws, and its finally runs cleanup()
CallWork(c) ==
    /\ calls[c] = "work"
    /\ CallGoes(c, "cleanup")
    /\ UNCHANGED <<singleCallVars, browser, context, handles, closers>>

\* if (this.context): what cleanup() of any call closes is what the field
\* of the instance holds
ContextToClose(c, field) == field

\* cleanup(): if (this.context) await this.context.close()
CleanupContext(c) ==
    /\ calls[c] = "cleanup"
    /\ LET target == ContextToClose(c, context)
       IN  IF target = "null"
             THEN /\ CallGoes(c, "cleanupBrowser")
                  /\ UNCHANGED <<handles, closers>>
             ELSE /\ closers' = [closers EXCEPT ![target] = @ \cup {c}]
                  /\ \E closed \in BOOLEAN :
                       IF closed
                         THEN /\ handles' = [handles EXCEPT ![target] = "closed"]
                              /\ CallGoes(c, "contextClosed")
                         ELSE /\ handles' = handles
                              /\ CallGoes(c, "cleanupFailed")
    /\ UNCHANGED <<singleCallVars, browser, context>>

\* cleanup(): this.context = null, after the await of close()
ContextClosed(c) ==
    /\ calls[c] = "contextClosed"
    /\ context' = "null"
    /\ CallGoes(c, "cleanupBrowser")
    /\ UNCHANGED <<singleCallVars, browser, handles, closers>>

\* the contexts of a browser, which are closed with it
ContextsIn(b) == { ContextOf(c) : c \in { d \in Calls : BrowserOf(d) = b } }

\* cleanup(): if (this.browser) await this.browser.close()
CleanupBrowser(c) ==
    /\ calls[c] = "cleanupBrowser"
    /\ IF browser = "null"
         THEN /\ CallGoes(c, "done")
              /\ UNCHANGED <<handles, closers>>
         ELSE /\ closers' = [closers EXCEPT ![browser] = @ \cup {c}]
              /\ \E closed \in BOOLEAN :
                   IF closed
                     THEN /\ handles' =
                               [h \in Handles |->
                                   IF h = browser
                                        \/ (h \in ContextsIn(browser)
                                              /\ handles[h] = "running")
                                     THEN "closed" ELSE handles[h]]
                          /\ CallGoes(c, "browserClosed")
                     ELSE /\ handles' = handles
                          /\ CallGoes(c, "cleanupFailed")
    /\ UNCHANGED <<singleCallVars, browser, context>>

\* cleanup(): this.browser = null, after the await of close()
BrowserClosed(c) ==
    /\ calls[c] = "browserClosed"
    /\ browser' = "null"
    /\ CallGoes(c, "done")
    /\ UNCHANGED <<singleCallVars, context, handles, closers>>

OverlapNext ==
    \E c \in Calls :
        \/ CallLaunch(c)
        \/ CallNewContext(c)
        \/ CallWork(c)
        \/ CleanupContext(c)
        \/ ContextClosed(c)
        \/ CleanupBrowser(c)
        \/ BrowserClosed(c)

OverlapSpec == OverlapInit /\ [][OverlapNext]_vars

(***************************************************************************)
(* Properties                                                              *)
(***************************************************************************)
Last(s) == s[Len(s)]

\* the identities of the entries a log names, as a sequence
IdsOf(log) == [k \in DOMAIN log |-> ItemId(feed[log[k]])]
NoRepeat(s) == \A i, j \in DOMAIN s : i # j => s[i] # s[j]

\* the detail timestamp read for entry i
SeenTimestamp(i) == ParseDate(Trim(subtitleSeen[i]))
Dated == { i \in DOMAIN subtitleSeen : SeenTimestamp(i) # NaN }

\* the timestamps read so far strictly decrease in feed order
SeenDecreasing ==
    \A i, j \in Dated : i < j => SeenTimestamp(i) > SeenTimestamp(j)

HasPrefix(title) == StartsWith(Trim(title), titlePrefix)
NoMatchingEntry == \A i \in DOMAIN feed : ~HasPrefix(feed[i].title)

CallEnding == pc \in {"catch", "finally", "done"}
ItemErrors == {"navigation", "downloadStart", "save", "extract"}

\* C1: within one harvest call no identity has its detail view opened twice
\* or its download sub-flow run twice, however often the passes show it
\* again, and no step takes an identity out of the visited set.
C1_OpenedOnce == NoRepeat(IdsOf(openLog)) /\ NoRepeat(IdsOf(downloadLog))
C1_IdempotentVisitation ==
    /\ []C1_OpenedOnce
    /\ [][visitedItems \subseteq visitedItems']_vars
\* a later pass is at an entry that was downloaded before
C1_Witness ==
    /\ pc = "for" /\ itemIdx <= Len(activityItems)
    /\ CurIndex \in Range(downloadLog)
    /\ passes > 0 /\ downloadCount > 0

\* C2 as claimed: with strictly decreasing timestamps, once the scan has
\* stopped, exactly the matching entries before the stop point have been
\* downloaded, each newer than the cutoff, and the stop entry is at or before
\* the cutoff.
C2_ExactPrefix ==
    (shouldStopSearching /\ SeenDecreasing) =>
        /\ \A i \in 1..(stoppedAt - 1) :
             HasPrefix(feed[i].title) => i \in Range(triggerLog)
        /\ \A i \in Range(triggerLog) :
             i < stoppedAt /\ SeenTimestamp(i) > lastSyncTime
        /\ SeenTimestamp(stoppedAt) <= lastSyncTime

\* C2 as amended: with strictly decreasing timestamps, what is downloaded
\* is only matching entries newer than the cutoff, in feed order and before
\* the stop point; the scan stops at the first entry it reads a timestamp at
\* or before the cutoff from (an equal one included); once stopped, nothing
\* more is opened, scrolled or downloaded.
C2_OnlyPrefix ==
    SeenDecreasing =>
        /\ \A i \in Range(downloadLog) \cup Range(triggerLog) :
             /\ HasPrefix(feed[i].title)
             /\ SeenTimestamp(i) > lastSyncTime
             /\ shouldStopSearching => i < stoppedAt
        /\ \A k, l \in DOMAIN downloadLog : k < l => downloadLog[k] < downloadLog[l]
        /\ shouldStopSearching <=> stoppedAt # 0
        /\ shouldStopSearching =>
             /\ SeenTimestamp(stoppedAt) <= lastSyncTime
             /\ \A i \in Dated \ {stoppedAt} : SeenTimestamp(i) > lastSyncTime
C2_CutoffMonotonicity ==
    /\ []C2_OnlyPrefix
    /\ [][shouldStopSearching =>
            UNCHANGED <<openLog, downloadLog, triggerLog, scrolls, rendered,
                        finalFileData>>]_vars
\* the first entry was downloaded, the second, equal to the cutoff, stopped
\* the scan
C2_Witness ==
    /\ pc = "done" /\ outcome = "returned"
    /\ triggerLog = <<1>> /\ stoppedAt = 2
    /\ SeenTimestamp(2) = lastSyncTime
    /\ SeenDecreasing

\* C3: when no entry matches and the feed shows an entry on every pass, the
\* scan ends by returning, after exactly maxScrollAttempts passes and as many
\* scrolls, one after each pass, and raises no error.
C3_AttemptBudget ==
    (NoMatchingEntry /\ feed # <<>>) =>
        /\ pc = "return" =>
             /\ passes = maxScrollAttempts
             /\ scrolls = maxScrollAttempts
             /\ scrollAttempts = maxScrollAttempts
        /\ pc = "while" => passes = scrolls
        /\ pc \in {"for", "endPass"} => passes = scrolls + 1
        /\ error \notin ItemErrors \cup {"scroll"}
C3_Witness ==
    /\ NoMatchingEntry /\ feed # <<>>
    /\ pc = "done" /\ outcome = "returned"
    /\ passes = maxScrollAttempts

\* C4: the rounds that find the activity dialog hidden are bounded by the
\* scroll-attempt cap.
C4_RetriesBounded == retries <= maxScrollAttempts

\* C5: when the call has returned or thrown, close() has been carried out on
\* the browser and on the context it opened: none is left running or open
\* (a close that was made and rejected is not held against the call).
C5_SessionReleased ==
    pc = "done" => browserProc # "running" /\ contextRes # "open"

\* C6: a failure of a step of an item's download sub-flow ends the call with
\* an error: the item is the last one opened and is not run again, and the
\* files collected before are not returned.
C6_ItemFailureAborts ==
    error \in ItemErrors =>
        /\ CallEnding
        /\ outcome # "returned" /\ returned = <<>>
        /\ pc = "done" => outcome = "threw"
        /\ Last(openLog) = CurIndex /\ Last(downloadLog) = CurIndex
        /\ NoRepeat(downloadLog)
C6_Witness ==
    /\ error \in ItemErrors /\ pc = "done" /\ outcome = "threw"
    /\ Len(finalFileData) > 0 /\ returned = <<>>
    /\ downloadCount > 0

\* C7 as claimed: a failed navigation to the download page does not abort
\* the scan.
C7_NavigationItemLevel == error = "navigation" => ~CallEnding

\* C7 as amended: a failed navigation to the download page aborts the harvest
\* call: the call throws, nothing is returned, no download is triggered for
\* the item and no later entry is opened.
C7_NavigationAborts ==
    error = "navigation" =>
        /\ CallEnding
        /\ pc = "done" => outcome = "threw" /\ returned = <<>>
        /\ CurIndex \notin Range(triggerLog)
        /\ Last(openLog) = CurIndex
C7_Witness ==
    /\ error = "navigation" /\ pc = "done" /\ outcome = "threw"
    /\ \E i \in DOMAIN feed :
         i > CurIndex /\ HasPrefix(feed[i].title)
                      /\ ItemId(feed[i]) \notin visitedItems

\* C8: when no entry of the feed has a title starting with the prefix, no
\* entry is opened, no download sub-flow runs, no download is triggered,
\* nothing is collected, the scan raises no error and what the call returns
\* is empty.
C8_EmptyResult ==
    NoMatchingEntry =>
        /\ openLog = <<>> /\ downloadLog = <<>> /\ triggerLog = <<>>
        /\ visitedItems = {} /\ finalFileData = <<>> /\ downloadCount = 0
        /\ error \in {"none", "launch", "newContext", "goto", "login"}
        /\ (pc = "done" /\ error = "none") =>
               outcome = "returned" /\ returned = <<>>
C8_Witness ==
    /\ NoMatchingEntry /\ Len(feed) = MaxFeedLen
    /\ pc = "done" /\ outcome = "returned" /\ returned = <<>>
    /\ scrolls > 0

\* the last processed item saved a download that is no archive
DirectSaved ==
    lastItem.saved # <<>> /\ ~EndsWith(lastItem.saved, zipExt)

C10_SingleFileReturned ==
    DirectSaved =>
        \E k \in (lastItem.before + 1)..Len(finalFileData) :
            finalFileData[k].fileName = lastItem.saved

\* the files an archive held at its top level
TopLevelFiles(content) == { e \in content : e.isFile }

\* C11: an archive item yields one record for each top-level file extracted
\* from its archive and no other record, also when its extraction directory
\* was there before.
C11_OneRecordPerExtractedFile ==
    \A k \in DOMAIN archiveLog :
        LET a == archiveLog[k]
        IN  /\ Len(a.records) = Cardinality(TopLevelFiles(a.content))
            /\ { r.fileName : r \in Range(a.records) }
                 = { e.name : e \in TopLevelFiles(a.content) }

\* every record the archives of the call gave
ArchiveRecords == UNION { Range(archiveLog[k].records) : k \in DOMAIN archiveLog }

\* every record read for an item's archive carries the detail timestamp of
\* that item, and the collection and the result hold only such records
RecordsStampedByItem ==
    /\ \A k \in DOMAIN archiveLog :
         \A r \in Range(archiveLog[k].records) :
            /\ r.updatedAt = SeenTimestamp(archiveLog[k].index)
            /\ r.updatedAt # NaN
    /\ Range(finalFileData) \subseteq ArchiveRecords
    /\ Range(returned) \subseteq ArchiveRecords

\* the archives up to the k-th that put a file of this name in its directory
Origins(k, name) ==
    { j \in 1..k : /\ archiveLog[j].dir = archiveLog[k].dir
                   /\ \E e \in TopLevelFiles(archiveLog[j].content) : e.name = name }

\* C12: every record has type "INPUT", null status and statusHistory, and as
\* updatedAt the detail timestamp of the entry whose download produced the
\* file, never that of another entry.
C12_StampedByOrigin ==
    \A k \in DOMAIN archiveLog :
        \A r \in Range(archiveLog[k].records) :
            /\ r.type = "INPUT"
            /\ r.status = "null" /\ r.statusHistory = "null"
            /\ Origins(k, r.fileName) # {}
            /\ \A j \in Origins(k, r.fileName) :
                 (\A i \in Origins(k, r.fileName) : i <= j) =>
                     r.updatedAt = SeenTimestamp(archiveLog[j].index)

\* C13: when an item has been processed (downloadActivityFiles has returned
\* to performDownload), the step that files its records sets scrollAttempts
\* to zero and counts the item.
C13_ResetOnProcessed ==
    [][(pc = "afterDownload" /\ pc' # pc) =>
          /\ scrollAttempts' = 0
          /\ downloadCount' = downloadCount + 1
          /\ lastItem'.index = CurIndex]_vars
\* the second entry, reached after a scroll, has just been processed
C13_Witness ==
    /\ pc = "endPass" /\ passes = 0
    /\ lastItem.index = 2 /\ lastItem.saved # <<>>
    /\ scrollAttempts = 0 /\ downloadCount > 0

\* C14: the attempts counted are the unproductive passes: at the head of the
\* loop scrollAttempts is the number of passes made since the last processed
\* item, the pass that processed it not counted.
C14_OnlyUnproductiveCounted == pc = "while" => scrollAttempts = passes

\* a text that is a date: one digit, blanks around it aside
IsDateText(text) ==
    Len(Trim(text)) = 1 /\ Trim(text)[1] \in {"0", "1", "2", "3", "4", "5"}
NotADate == { i \in DOMAIN subtitleSeen : ~IsDateText(subtitleSeen[i]) }

\* C15: an entry whose detail text is no date is not downloaded and does not
\* stop the scan; the step that reads the text goes on to the next item of
\* the pass, with the stop flag, the counters and the collection as they were.
C15_InvalidSkippedState ==
    \A i \in NotADate :
        /\ i \notin Range(downloadLog) /\ i \notin Range(triggerLog)
        /\ stoppedAt # i
        /\ i \in Range(openLog)
        /\ ItemId(feed[i]) \in visitedItems
C15_InvalidTimestampSkipped ==
    /\ []C15_InvalidSkippedState
    /\ [][(/\ openLog' # openLog
           /\ Last(openLog') \in NotADate') =>
              /\ pc' = "for" /\ itemIdx' = itemIdx + 1
              /\ UNCHANGED <<shouldStopSearching, scrollAttempts, downloadCount,
                             finalFileData, error>>]_vars
\* an entry after one with an unparsable text was downloaded
C15_Witness ==
    \E i \in NotADate : \E j \in Range(triggerLog) : j > i

HasSuffix(name) == EndsWith(Trim(name), nameSuffix)
\* the files of a nested list whose name ends with nameSuffix
SuffixFiles(list) == { Trim(list[k]) : k \in { j \in DOMAIN list : HasSuffix(list[j]) } }

InSubFlow == pc \in {"dropdown", "navigate", "fileList", "select", "trigger",
                     "awaitDownload", "save", "materialize"}
PastSelection == pc \in {"trigger", "awaitDownload", "save", "materialize"}

\* C16: with no Download option, no entry in the file list, no entry ending
\* with nameSuffix or no final download button, the sub-flow returns to
\* performDownload without a value and without an error; the item adds no
\* file to the collection, is counted, and the pass ends as after any
\* processed item, the scan not stopped.
C16_NoFilesNoError ==
    /\ [](pc \in {"select", "trigger"} => SuffixFiles(fileItems) # {})
    /\ [][(pc \in {"dropdown", "fileList", "trigger"} /\ pc' # pc
             /\ pc' \notin {"navigate", "select", "awaitDownload"}) =>
              /\ pc' = "afterDownload"
              /\ fileData' = Undefined
              /\ UNCHANGED <<error, outcome, finalFileData, triggerLog,
                             downloadDir>>]_vars
    /\ [][(pc = "afterDownload" /\ pc' # pc /\ ~fileData.defined) =>
              /\ pc' = "endPass"
              /\ UNCHANGED <<error, outcome, finalFileData, shouldStopSearching>>
              /\ downloadCount' = downloadCount + 1]_vars
\* the first item's file list had no matching file; the second item was
\* downloaded and the call returned
C16_Witness ==
    /\ pc = "done" /\ outcome = "returned"
    /\ downloadLog = <<1, 2>> /\ triggerLog = <<2>>
    /\ Len(finalFileData) > 0

\* C17: what is selected when the download is triggered is exactly the files
\* of the item's list whose name ends with nameSuffix, and the download
\* button is clicked once for the item.
C17_SelectionExact ==
    /\ PastSelection =>
         /\ selectedFiles = SuffixFiles(fileItems)
         /\ selectedFiles = Range(filteredFiles)
         /\ selectedFiles # {}
    /\ NoRepeat(triggerLog)
    /\ pc \in {"awaitDownload", "save", "materialize"} =>
         /\ triggerLog # <<>> /\ Last(triggerLog) = CurIndex
    /\ pc \in {"dropdown", "navigate", "fileList", "select", "trigger"} =>
         CurIndex \notin Range(triggerLog)
\* two of three listed files end with the suffix and both are selected
C17_Witness ==
    /\ pc = "awaitDownload"
    /\ fileItems = <<FileA, FileB, FileC>>
    /\ selectedFiles = {FileA, FileC}

Increasing(s) == \A k, l \in DOMAIN s : k < l => s[k] < s[l]
IsPrefix(s, t) == Len(s) <= Len(t) /\ SubSeq(t, 1, Len(s)) = s

\* the archives whose records performDownload has filed: all but one that
\* the sub-flow has just returned
FiledArchives ==
    IF pc = "afterDownload" /\ archiveLog # <<>>
         /\ Last(archiveLog).index = CurIndex
      THEN SubSeq(archiveLog, 1, Len(archiveLog) - 1)
      ELSE archiveLog

RECURSIVE RecordsIn(_)
RecordsIn(log) ==
    IF log = <<>> THEN <<>> ELSE Head(log).records \o RecordsIn(Tail(log))

\* C18: items are opened and processed in the order of the feed; the
\* collection is the records of the processed items one after the other in
\* that order, it only grows at its end, and what the call returns is that
\* collection.
C18_OrderedState ==
    /\ Increasing(openLog) /\ Increasing(downloadLog) /\ Increasing(triggerLog)
    /\ Increasing([k \in DOMAIN archiveLog |-> archiveLog[k].index])
    /\ finalFileData = RecordsIn(FiledArchives)
    /\ outcome = "returned" => returned = finalFileData
C18_OrderedAppendOnly ==
    /\ []C18_OrderedState
    /\ [][IsPrefix(finalFileData, finalFileData')]_vars
\* two items gave records and the call returned them in the order of the items
C18_Witness ==
    /\ pc = "done" /\ outcome = "returned"
    /\ Len(archiveLog) = 2
    /\ archiveLog[1].records # <<>> /\ archiveLog[2].records # <<>>
    /\ returned = archiveLog[1].records \o archiveLog[2].records
    /\ returned # archiveLog[2].records \o archiveLog[1].records

\* C19 as claimed: whenever the call has thrown, a screenshot was attempted.
C19_ScreenshotAlways == outcome = "threw" => screenshot # "none"

\* what cleanup() leaves behind it is left by a close that rejected
CleanupRan ==
    /\ context = "set" => contextRes = "closeFailed"
    /\ browser = "set" => "closeFailed" \in {contextRes, browserProc}

\* C19 as amended: when the call throws with a page at hand (the failure
\* came after initializeBrowser), a screenshot was attempted; without a
\* page none is.  Saved or failed, the screenshot leaves the error as it
\* was, the call throws it, and cleanup() is run.
C19_ScreenshotState ==
    /\ (outcome = "threw" /\ page = "set") => screenshot \in {"saved", "failed"}
    /\ (outcome = "threw" /\ page = "null") =>
           screenshot = "none" /\ error \in {"launch", "newContext", "goto"}
    /\ screenshot # "none" => outcome = "threw" /\ error # "none"
    /\ (pc = "done" /\ error # "none") => outcome = "threw" /\ CleanupRan
C19_ScreenshotBestEffort ==
    /\ []C19_ScreenshotState
    /\ [][(pc = "catch" /\ pc' # pc) =>
              pc' = "finally" /\ error' = error /\ outcome' = "threw"]_vars
    /\ [][(pc = "finally" /\ pc' # pc) =>
              pc' = "done" /\ UNCHANGED <<error, outcome, screenshot>>]_vars
\* the screenshot failed, the call threw the scan's error and cleanup ran
C19_Witness ==
    /\ pc = "done" /\ screenshot = "failed"
    /\ outcome = "threw" /\ error \in ItemErrors
    /\ browserProc = "closed" /\ contextRes = "closed"

\* C20 as claimed: a wait that ran out is an error of its step, and the flow
\* does not go on as if the wait had succeeded.
C20_TimeoutIsError ==
    /\ listWait = "timedOut" => error # "none" /\ CallEnding
    /\ error \in {"navigation", "downloadStart"} => CallEnding

\* C20 as amended: the waits for the download page and for the download to
\* start, once they run out, are errors that end the call, with nothing of
\* the later steps done; the wait for the file list, once it runs out, is
\* no error: the sub-flow goes on to count and filter the entries.
C20_WaitState ==
    /\ error = "navigation" =>
         /\ CallEnding /\ listWait = "none" /\ fileItems = <<>>
         /\ CurIndex \notin Range(triggerLog)
    /\ error = "downloadStart" =>
         /\ CallEnding /\ downloadPromise = "settled"
         /\ suggestedFilename = <<>> /\ Last(triggerLog) = CurIndex
    /\ error # "fileList"
C20_WaitTimeouts ==
    /\ []C20_WaitState
    /\ [][(listWait = "none" /\ listWait' = "timedOut") =>
              /\ error' = "none"
              /\ pc' \in {"select", "afterDownload"}
              /\ pc' = "select" <=> SuffixFiles(fileItems') # {}]_vars
\* the wait for the file list ran out and the download was triggered all the
\* same
C20_Witness ==
    /\ pc = "awaitDownload" /\ listWait = "timedOut"
    /\ Last(triggerLog) = CurIndex /\ error = "none"

\* the probe of the completion monitor has run
FallbackDone ==
    /\ pc \in {"uploadReturn", "uploadCatch", "uploadFinally", "uploadDone"}
    /\ progressWait = "timedOut" \/ monitorWait = "rejected"

\* an element the error locator matches holds an error text
ErrorShown ==
    \E k \in DOMAIN errorNodes :
        Includes(ToLowerCase(errorNodes[k].text), errorWord)

\* C21: when the progress indicator never appears the completion monitor
\* goes to its probe, not to the progress polling; once the probe has read
\* the page, the wait has failed exactly when one of the elements at the
\* probed error locations holds an error-like text.
C21_AnyErrorLocationFails ==
    /\ progressWait = "timedOut" =>
         /\ monitorWait = "none"
         /\ pc \in {"probeError", "uploadReturn", "uploadCatch",
                    "uploadFinally", "uploadDone"}
    /\ (FallbackDone /\ errorMessage.read) =>
         (ErrorShown <=> error = "transfer")

\* the keys of the results that report a success, in order
RECURSIVE SuccessKeys(_)
SuccessKeys(list) ==
    IF list = <<>> THEN <<>>
    ELSE (IF Head(list).success THEN <<S3Key(Head(list).fileName)>> ELSE <<>>)
             \o SuccessKeys(Tail(list))

\* C22: S3UploaderService.upload holds one result per file of its input
\* handled so far, in input order, and when it returns one per input file;
\* a result reports success exactly when that file's object was put, so a
\* failed send marks its own file only and the files after it are still
\* sent; upload does not throw.
C22_OneResultPerFile ==
    /\ s3Outcome # "threw"
    /\ fileIdx <= Len(s3Files) + 1
    /\ Len(results) = fileIdx - 1
    /\ \A k \in DOMAIN results : results[k].fileName = s3Files[k]
    /\ bucketKeys = SuccessKeys(results)
    /\ s3Outcome = "returned" => Len(results) = Len(s3Files)
\* the first send failed, the second succeeded, and upload returned
C22_Witness ==
    /\ s3Outcome = "returned"
    /\ Len(s3Files) = MaxFiles
    /\ ~results[1].success /\ results[2].success
    /\ Len(bucketKeys) > 0

\* the feed entries an identity belongs to
EntriesOf(id) == { i \in DOMAIN feed : ItemId(feed[i]) = id }

\* C23: every identity of the visited set belongs to an entry whose title
\* starts with titlePrefix and only such entries are opened or downloaded;
\* a step taken while the for loop stands at an entry whose title does not
\* start with the prefix leaves the visited set, the scroll-attempt counter,
\* the stop flag, the download count and the collection as they are, and the
\* loop moves on to the next entry.
C23_VisitedOnlyMatching ==
    /\ \A id \in visitedItems :
         /\ EntriesOf(id) # {}
         /\ \A i \in EntriesOf(id) : HasPrefix(feed[i].title)
    /\ \A i \in Range(openLog) \cup Range(downloadLog) : HasPrefix(feed[i].title)
C23_NonMatchingSkipped ==
    /\ []C23_VisitedOnlyMatching
    /\ [][(AtItem /\ ~HasPrefix(CurEntry.title)) =>
            /\ UNCHANGED <<visitedItems, scrollAttempts, shouldStopSearching,
                           downloadCount, finalFileData, openLog>>
            /\ pc' = "for"
            /\ itemIdx' \in {itemIdx, itemIdx + 1}]_vars
\* the second entry, which does not match, has been passed over after the
\* first one was marked
C23_Witness ==
    /\ pc = "for" /\ itemIdx = 3
    /\ activityItems = <<1, 2>>
    /\ ~HasPrefix(feed[2].title)
    /\ visitedItems = {ItemId(feed[1])}
    /\ scrollAttempts > 0

\* the feed entries the call has opened, read a timestamp of, or run the
\* download sub-flow for
Handled ==
    Range(openLog) \cup DOMAIN subtitleSeen \cup Range(downloadLog)
        \cup Range(triggerLog)

\* C24: the identity of every entry that was opened, had its timestamp read
\* or was handed to the download sub-flow is in the visited set, also while
\* its sub-flow runs and after a step of its processing has failed; an entry
\* whose click failed is in the visited set although it was never opened.
C24_MarkedBeforeProcessed ==
    /\ \A i \in Handled : ItemId(feed[i]) \in visitedItems
    /\ InSubFlow => ItemId(CurEntry) \in visitedItems
    /\ error \in ItemErrors \cup {"click"} => ItemId(CurEntry) \in visitedItems
    /\ error = "click" => CurIndex \notin Handled
\* the click on the second matching entry failed after the first one had
\* been opened: both are marked
C24_Witness ==
    /\ error = "click" /\ pc = "done"
    /\ openLog = <<1>> /\ CurIndex = 2
    /\ visitedItems = {ItemId(feed[1]), ItemId(feed[2])}
    /\ ItemId(feed[1]) # ItemId(feed[2])

\* an item has been processed and no pass was started since
JustProcessed == lastItem.index # 0 /\ passes = 0

C25_VisibleState ==
    (pc = "while" /\ JustProcessed) => dialog = "open" /\ scrolls = 1
C26_EmptyPassReturns ==
    [][(pc = "while" /\ WhileCondition(shouldStopSearching, scrollAttempts)
          /\ dialog = "open" /\ rendered = 0 /\ pc' # pc) =>
            /\ pc' = "return"
            /\ UNCHANGED <<finalFileData, scrolls, scrollAttempts, error,
                           rendered, visitedItems>>]_vars
C26_ReturnsCollected ==
    (pc = "done" /\ outcome = "returned") => returned = finalFileData
C26_EmptyFeedTerminates ==
    /\ C26_EmptyPassReturns
    /\ []C26_ReturnsCollected
\* the feed is empty: the call returned after no pass and no scroll
C26_Witness ==
    /\ feed = <<>> /\ pc = "done" /\ outcome = "returned"
    /\ dialog = "open" /\ error = "none"
    /\ passes = 0 /\ scrolls = 0 /\ returned = <<>>

\* C27: every scroll of the feed container ends a pass that found no new
\* matching entry, so there are never more scrolls since the last processed
\* item than passes started since then.
C27_ScrollOnlyAfterUnproductive == scrolls <= passes

\* C28: when the extraction of an item's archive fails, the call ends with
\* that error and returns nothing, no archive is logged and no record is
\* filed for the item, and the saved archive is still in the download
\* directory; a file leaves the download directory only in a step that
\* extracted it.
C28_FailedState ==
    error = "extract" =>
        /\ CallEnding
        /\ pc = "done" => outcome = "threw" /\ returned = <<>>
        /\ IsArchive(suggestedFilename)
        /\ suggestedFilename \in downloadDir
        /\ \A k \in DOMAIN archiveLog : archiveLog[k].index # CurIndex
        /\ finalFileData = RecordsIn(archiveLog)
        /\ fileData = Undefined
C28_ExtractionFailureFatal ==
    /\ []C28_FailedState
    /\ [][downloadDir' # downloadDir =>
            \/ downloadDir' = downloadDir \cup {suggestedFilename}
            \/ /\ downloadDir' = downloadDir \ {suggestedFilename}
               /\ Len(archiveLog') = Len(archiveLog) + 1
               /\ Last(archiveLog').index = CurIndex
               /\ error' = "none"]_vars
\* the first item's archive was extracted and deleted, the extraction of the
\* second item's archive failed and the archive is on disk
C28_Witness ==
    /\ error = "extract" /\ pc = "done" /\ outcome = "threw"
    /\ Len(archiveLog) = 1 /\ archiveLog[1].index = 1 /\ CurIndex = 2
    /\ ZipName \in downloadDir

\* the place of a position of the call in the order of the per-item stages
FlowStage(position) ==
    CASE position = "for" -> 0
      [] position = "dropdown" -> 1
      [] position = "navigate" -> 2
      [] position = "fileList" -> 3
      [] position = "select" -> 4
      [] position = "trigger" -> 5
      [] position = "awaitDownload" -> 6
      [] position = "save" -> 7
      [] position = "materialize" -> 8
      [] position = "afterDownload" -> 9
      [] OTHER -> 0 - 1

\* C29: an item's sub-flow is entered for an opened entry and goes through
\* its stages one by one in their order, ending by its return or by an
\* error; the download button is clicked only with the filtered files
\* selected, a payload is saved only after the awaited download has started,
\* and an archive is extracted only when it has been saved.
C29_StageState ==
    /\ InSubFlow =>
         /\ Last(openLog) = CurIndex /\ Last(downloadLog) = CurIndex
         /\ \A k \in DOMAIN archiveLog : archiveLog[k].index # CurIndex
    /\ FlowStage(pc) \in 4..8 =>
         /\ listWait # "none"
         /\ filteredFiles # <<>> /\ filteredFiles = FilterFiles(fileItems)
    /\ FlowStage(pc) \in 1..5 => CurIndex \notin Range(triggerLog)
    /\ (InSubFlow /\ CurIndex \in Range(triggerLog)) =>
         /\ selectedFiles = Range(filteredFiles) /\ selectedFiles # {}
         /\ downloadPromise # "none"
    /\ FlowStage(pc) \in 1..6 => suggestedFilename = <<>>
    /\ FlowStage(pc) \in 7..8 =>
         /\ downloadPromise = "settled" /\ suggestedFilename # <<>>
         /\ Last(triggerLog) = CurIndex
    /\ pc = "materialize" => suggestedFilename \in downloadDir
C29_StageOrder ==
    /\ []C29_StageState
    /\ [][(pc' # pc /\ (InSubFlow \/ FlowStage(pc') \in 1..9)) =>
            \/ FlowStage(pc') = FlowStage(pc) + 1
            \/ InSubFlow /\ pc' = "afterDownload"
            \/ InSubFlow /\ pc' = "catch" /\ error' \in ItemErrors]_vars
\* the second item went through every stage: selected, triggered, saved,
\* extracted, and its sub-flow has returned its records
C29_Witness ==
    /\ pc = "afterDownload" /\ CurIndex = 2
    /\ triggerLog # <<>> /\ Last(triggerLog) = 2
    /\ archiveLog # <<>> /\ Last(archiveLog).index = 2
    /\ fileData.defined /\ Len(fileData.files) > 0
    /\ Cardinality(selectedFiles) = 2

\* M: the distinct identities of the feed entries whose title matches
MatchingIds == { ItemId(feed[i]) : i \in { j \in DOMAIN feed : HasPrefix(feed[j].title) } }

\* C30: a call makes at most (M + 1) * maxScrollAttempts passes over the
\* feed, M being the number of distinct matching identities of the feed, at
\* most M items are processed, and the scroll-attempt counter is always
\* within 0..maxScrollAttempts.
C30_PassBudget ==
    /\ allPasses <= (Cardinality(MatchingIds) + 1) * maxScrollAttempts
    /\ downloadCount <= Cardinality(MatchingIds)
    /\ scrollAttempts \in 0..maxScrollAttempts
    /\ passes <= allPasses
\* one matching identity, processed in the second pass: the call returned
\* after more passes than maxScrollAttempts
C30_Witness ==
    /\ pc = "done" /\ outcome = "returned"
    /\ Cardinality(MatchingIds) = 1 /\ downloadCount = 1
    /\ allPasses = maxScrollAttempts + 1

\* C31 as claimed: while no step has failed, every identity of the visited
\* set belongs to an entry that was opened.
C31_MarkedExamined ==
    error = "none" =>
        \A id \in visitedItems : EntriesOf(id) \cap Range(openLog) # {}

\* C31 as amended: an identity enters the visited set only at a matching
\* unvisited entry, in a step that opens the entry, finds it not visible and
\* moves on, or fails at the click; entries are opened and their timestamps
\* read only in the step that marks them, so an identity marked without
\* being examined is not examined later in the call.
C31_MarkedOnceExaminedOrNot ==
    [][/\ visitedItems' # visitedItems =>
            /\ AtMatch
            /\ visitedItems' = visitedItems \cup {ItemId(CurEntry)}
            /\ \/ openLog' = Append(openLog, CurIndex)
               \/ /\ openLog' = openLog /\ subtitleSeen' = subtitleSeen
                  /\ \/ pc' = "for" /\ itemIdx' = itemIdx + 1 /\ error' = error
                     \/ pc' = "catch" /\ error' = "click"
       /\ (openLog' # openLog \/ subtitleSeen' # subtitleSeen) =>
            /\ visitedItems' # visitedItems
            /\ openLog' = Append(openLog, CurIndex)]_vars
\* the first matching entry was marked while not visible and never opened,
\* the second was opened, and the call returned
C31_Witness ==
    /\ pc = "done" /\ outcome = "returned" /\ error = "none"
    /\ Len(feed) = 2
    /\ visitedItems = {ItemId(feed[1]), ItemId(feed[2])}
    /\ ItemId(feed[1]) # ItemId(feed[2])
    /\ openLog = <<2>>

\* the call that opened a browser or context
OwnerOf(h) == CHOOSE c \in Calls : h \in {BrowserOf(c), ContextOf(c)}

\* C32: with calls overlapping on one instance and no close() rejected, a
\* call's cleanup calls close() only on the browser and context that this
\* call opened, and when all calls are done no browser or context is left
\* running.
C32_OwnSessionOnly ==
    (\A c \in Calls : calls[c] # "cleanupFailed") =>
        /\ \A h \in Handles : closers[h] \subseteq {OwnerOf(h)}
        /\ (\A c \in Calls : calls[c] = "done") =>
               \A h \in Handles : handles[h] # "running"

\* C33: a wait for the download-started event is pending only while the
\* sub-flow that registered it is awaiting it; once downloadActivityFiles
\* has returned or thrown, no such wait is left.
C33_NoPendingWait ==
    pc # "awaitDownload" => downloadPromise # "pending"


\* C34 as stated: the wait is registered before the click, so every download
\* that starts after the click, however early or late, is observed: no call
\* whose item's download has started ends with the wait's failure.
C34_EveryStartObserved ==
    downloadEvent = "started" => error # "downloadStart"

\* C34: the wait for the download-started event is registered before the
\* batch-download button is clicked, so a download that starts after the
\* click and before the 60 s of the wait run out is observed, however early,
\* and handed to saveAs; when none has started by then the wait throws.
C34_StartWithinWaitObserved ==
    /\ [](/\ (triggerLog # <<>> /\ pc \in {"awaitDownload", "save"})
               => downloadPromise # "none"
          /\ (pc = "awaitDownload" /\ downloadEvent = "started")
               => downloadPromise = "resolved"
          /\ pc = "save" => downloadEvent = "started")
    /\ [][(pc = "awaitDownload" /\ pc' # pc)
            => IF downloadEvent = "started"
                 THEN pc' = "save" /\ suggestedFilename' \in SuggestedNames
                 ELSE pc' = "catch" /\ error' = "downloadStart"]_vars

\* a download that started while the call was still waiting is being saved
C34_Witness ==
    /\ pc = "save"
    /\ downloadEvent = "started"
    /\ downloadPromise = "settled"
    /\ triggerLog # <<>>


\* C35: uploadToMediaShuttle returns success = true only if the given files
\* were handed to the file chooser and the send button was clicked during
\* that call; with the add-files button or the send button not visible the
\* result is not a success.
C35_SuccessMeansSent ==
    (uploadResult # NoResult /\ uploadResult.success) =>
        /\ chooserFiles = SetFiles(filePaths)
        /\ sendClicked


\* two feed entries at different positions whose trimmed title and trimmed
\* subtext are equal
Twins(i, j) ==
    /\ i < j
    /\ Trim(feed[i].title) = Trim(feed[j].title)
    /\ Trim(feed[i].subtext) = Trim(feed[j].subtext)

\* C36: two distinct feed entries whose trimmed title and subtext are equal
\* share one identity: at most one of them is ever opened, has its timestamp
\* read or is downloaded in a harvest call, and an entry is opened, read or
\* handed to the download sub-flow only in a step that finds its identity
\* not yet in the visited set, whatever timestamp the entry would show.
C36_OneOfTwins ==
    /\ \A i, j \in DOMAIN feed :
         Twins(i, j) =>
            /\ ItemId(feed[i]) = ItemId(feed[j])
            /\ ~(i \in Handled /\ j \in Handled)
    /\ Range(triggerLog) \subseteq Range(downloadLog)
C36_TwinNeverOpened ==
    /\ []C36_OneOfTwins
    /\ [][(\/ openLog' # openLog
           \/ subtitleSeen' # subtitleSeen
           \/ downloadLog' # downloadLog) =>
            /\ ItemId(CurEntry) \notin visitedItems
            /\ Range(openLog') \subseteq Range(openLog) \cup {CurIndex}
            /\ DOMAIN subtitleSeen' \subseteq DOMAIN subtitleSeen \cup {CurIndex}
            /\ Range(downloadLog') \subseteq Range(downloadLog) \cup {CurIndex}]_vars
\* the first of two entries that differ only in white space was downloaded,
\* the second was passed over in every later pass, and the call returned
C36_Witness ==
    /\ pc = "done" /\ outcome = "returned"
    /\ Len(feed) = 2 /\ Twins(1, 2) /\ feed[1] # feed[2]
    /\ downloadLog = <<1>> /\ openLog = <<1>>
    /\ visitedItems = {ItemId(feed[1])}
    /\ allPasses > 1

====
